---- MODULE Spec2Model ----
(***************************************************************************)
(* Verification model of the AWS documentation analyzer                    *)
(* (src/aws_documentation_analyzer.py).                                    *)
(*                                                                         *)
(* Part 1: the Schema Validator, AWSDocumentationAnalyzer                  *)
(* .validate_csv_format, together with the csv.DictReader / csv.reader     *)
(* machinery of the Python standard library it is built on.                *)
(*                                                                         *)
(* Text is a sequence of atoms.  An atom is either one of the characters   *)
(* the csv parser treats specially (comma, quote, CR, LF), a blank, or a   *)
(* word: a run of ordinary characters that is never split ("controlId",    *)
(* "High", "A").                                                           *)
(***************************************************************************)
EXTENDS Integers, Sequences, FiniteSets, TLC

\* ------------------------------------------------------------------------
\* Bounds of the model
\* ------------------------------------------------------------------------
MaxRows == 2
MaxCalls == 3

\* ------------------------------------------------------------------------
\* Characters
\* ------------------------------------------------------------------------
COMMA == ","
QUOTE == "\""
CR == "\r"
LF == "\n"
SP == " "
\* the end-of-line pseudo character the csv parser is fed after every line
EOL == "<EOL>"
\* Python's None, as a field value (DictReader.restval)
None == <<"<None>">>

Whitespace == {SP, CR, LF}

\* str.strip(): drop leading and trailing whitespace
RECURSIVE LStrip(_)
LStrip(s) ==
    IF s = <<>> THEN <<>>
    ELSE IF Head(s) \in Whitespace THEN LStrip(Tail(s))
    ELSE s

RECURSIVE RStrip(_)
RStrip(s) ==
    IF s = <<>> THEN <<>>
    ELSE IF s[Len(s)] \in Whitespace THEN RStrip(SubSeq(s, 1, Len(s) - 1))
    ELSE s

strip(s) == RStrip(LStrip(s))

\* str.split(sep)
RECURSIVE split(_, _)
split(s, sep) ==
    IF \A i \in DOMAIN s : s[i] # sep THEN <<s>>
    ELSE LET i == CHOOSE j \in DOMAIN s :
                      s[j] = sep /\ \A k \in 1..(j - 1) : s[k] # sep
         IN  <<SubSeq(s, 1, i - 1)>> \o split(SubSeq(s, i + 1, Len(s)), sep)

\* ------------------------------------------------------------------------
\* csv.reader (excel dialect: delimiter ',', quotechar '"', doublequote,
\* not strict) reading the lines of io.StringIO(csv_content)
\* ------------------------------------------------------------------------
parse_reset ==
    [state |-> "START_RECORD", fields |-> <<>>, field |-> <<>>, err |-> FALSE]

parse_save_field(p) ==
    [p EXCEPT !.fields = Append(@, p.field), !.field = <<>>]

parse_add_char(p, c) ==
    [p EXCEPT !.field = Append(@, c)]

AfterNewline(c) == IF c = EOL THEN "START_RECORD" ELSE "EAT_CRNL"

StartField(p, c) ==
    IF c \in {LF, CR, EOL}
    THEN [parse_save_field(p) EXCEPT !.state = AfterNewline(c)]
    ELSE IF c = QUOTE THEN [p EXCEPT !.state = "IN_QUOTED_FIELD"]
    ELSE IF c = COMMA THEN [parse_save_field(p) EXCEPT !.state = "START_FIELD"]
    ELSE [parse_add_char(p, c) EXCEPT !.state = "IN_FIELD"]

parse_process_char(p, c) ==
    CASE p.state = "START_RECORD" ->
            IF c = EOL THEN p
            ELSE IF c \in {LF, CR} THEN [p EXCEPT !.state = "EAT_CRNL"]
            ELSE StartField(p, c)
      [] p.state = "START_FIELD" -> StartField(p, c)
      [] p.state = "IN_FIELD" ->
            IF c \in {LF, CR, EOL}
            THEN [parse_save_field(p) EXCEPT !.state = AfterNewline(c)]
            ELSE IF c = COMMA
            THEN [parse_save_field(p) EXCEPT !.state = "START_FIELD"]
            ELSE parse_add_char(p, c)
      [] p.state = "IN_QUOTED_FIELD" ->
            IF c = EOL THEN p
            ELSE IF c = QUOTE THEN [p EXCEPT !.state = "QUOTE_IN_QUOTED_FIELD"]
            ELSE parse_add_char(p, c)
      [] p.state = "QUOTE_IN_QUOTED_FIELD" ->
            IF c = QUOTE
            THEN [parse_add_char(p, c) EXCEPT !.state = "IN_QUOTED_FIELD"]
            ELSE IF c = COMMA
            THEN [parse_save_field(p) EXCEPT !.state = "START_FIELD"]
            ELSE IF c \in {LF, CR, EOL}
            THEN [parse_save_field(p) EXCEPT !.state = AfterNewline(c)]
            ELSE [parse_add_char(p, c) EXCEPT !.state = "IN_FIELD"]
      [] p.state = "EAT_CRNL" ->
            IF c \in {LF, CR} THEN p
            ELSE IF c = EOL THEN [p EXCEPT !.state = "START_RECORD"]
            ELSE [p EXCEPT !.err = TRUE]

\* io.StringIO iteration: a line runs up to and including the next LF
RECURSIVE LineEnd(_, _)
LineEnd(text, pos) ==
    IF pos >= Len(text) THEN Len(text)
    ELSE IF text[pos] = LF THEN pos
    ELSE LineEnd(text, pos + 1)

\* feed text[i..end] and then EOL to the parser, stopping at an error
RECURSIVE ProcessLine(_, _, _, _)
ProcessLine(p, text, i, end) ==
    IF p.err THEN p
    ELSE IF i > end THEN parse_process_char(p, EOL)
    ELSE ProcessLine(parse_process_char(p, text[i]), text, i + 1, end)

\* next(csv.reader): the next record read from position pos on
RECURSIVE Reader_iternext(_, _, _)
Reader_iternext(p, text, pos) ==
    IF pos > Len(text)
    THEN IF p.field # <<>> \/ p.state = "IN_QUOTED_FIELD"
         THEN [kind |-> "row", fields |-> parse_save_field(p).fields, pos |-> pos]
         ELSE [kind |-> "stop", fields |-> <<>>, pos |-> pos]
    ELSE LET end == LineEnd(text, pos)
             q == ProcessLine(p, text, pos, end)
         IN  IF q.err THEN [kind |-> "error", fields |-> <<>>, pos |-> end + 1]
             ELSE IF q.state = "START_RECORD"
             THEN [kind |-> "row", fields |-> q.fields, pos |-> end + 1]
             ELSE Reader_iternext(q, text, end + 1)

reader_next(text, pos) == Reader_iternext(parse_reset, text, pos)

\* ------------------------------------------------------------------------
\* csv.DictReader
\* ------------------------------------------------------------------------
\* DictReader.__next__: blank records are skipped
RECURSIVE DictReader_next(_, _)
DictReader_next(text, pos) ==
    LET r == reader_next(text, pos)
    IN  IF r.kind = "row" /\ r.fields = <<>>
        THEN DictReader_next(text, r.pos)
        ELSE r

MaxOf(S) == CHOOSE m \in S : \A x \in S : x <= m

\* row.get(key, default) on d = dict(zip(fieldnames, row)) completed with
\* restval None for the field names the row is too short for
row_get(fieldnames, row, key, default) ==
    LET idx == {i \in 1..Len(fieldnames) : fieldnames[i] = <<key>>}
    IN  IF idx = {} THEN default
        ELSE IF MaxOf(idx) <= Len(row) THEN row[MaxOf(idx)]
        ELSE None

\* ------------------------------------------------------------------------
\* State
\* ------------------------------------------------------------------------
VARIABLES
    hashseed,      \* the process's string-hash seed: fixes set iteration order
    table,         \* the caller's table that csv_content was written from
    csv_content,   \* the text under validation
    heap,          \* the report objects allocated so far, by reference
    calls,         \* the validate_csv_format calls made so far
    document,      \* the blocks the extractor's input text was written from
    doc_text,      \* the text handed to extract_csv_from_text
    extracted,     \* what extract_csv_from_text returned for doc_text
    summary,       \* what get_service_security_summary returned
    request,       \* the subject and the search phrase of the analysis
    messages,      \* the transcript of the team's conversation
    results,       \* what the analysis returned
    files,         \* the files written, as path and content
    aws_services,        \* the subjects of the batch, in the order given
    runs,                \* what the run of each subject so far came to
    all_controls,        \* the dict of the batch: per subject, its entry
    master_csv_content,  \* the master CSV written for the batch
    response,            \* what the API endpoint answered
    reruns,              \* what each run of the endpoint's second pass came to
    service_data,        \* the dict of the endpoint's second pass
    mcp_client,          \* the analyzer's tool provider client, or None
    tool_results,        \* the outcomes of the tool helper calls so far
    analyses             \* the concurrent analyses: request, phase, result

validatorVars == <<hashseed, table, csv_content, heap, calls>>
extractorVars == <<document, doc_text, extracted, summary>>

coordinatorVars == <<request, messages, results, files>>

batchVars == <<aws_services, runs, all_controls, master_csv_content>>

apiVars == <<response, reruns, service_data, mcp_client, tool_results, analyses>>

vars == <<validatorVars, extractorVars, coordinatorVars, batchVars, apiVars>>

\* a variable of a component that does not run
Unused == <<"<unused>">>

\* results, before the analysis has returned
NotReturned == [returned |-> FALSE, raised |-> FALSE]

\* response, before the endpoint has answered
NoResponse == [status |-> "none"]

\* results, after the analysis has raised
Raised == [returned |-> FALSE, raised |-> TRUE]

\* ------------------------------------------------------------------------
\* AWSDocumentationAnalyzer.validate_csv_format
\* ------------------------------------------------------------------------
RequiredColumns ==
    <<"controlId", "controlName", "severity", "policies", "awsConfig",
      "implementation", "relatedRequirements">>

\* the list with one token mistyped
AllowedSeverities_typo == {<<"Critcal">>, <<"High">>, <<"Medium">>, <<"Low">>}

AllowedSeverities == {<<"Critical">>, <<"High">>, <<"Medium">>, <<"Low">>}

\* one report object kept and reused by every call, never reset
validation_results_shared ==
    [ref |-> 1,
     val |-> IF heap = <<>>
             THEN [is_valid |-> TRUE, issues |-> <<>>, row_count |-> 0,
                   column_count |-> 0, required_columns |-> RequiredColumns]
             ELSE heap[1]]

\* the report dict literal: a new object with fresh contents on every call
validation_results_new ==
    [ref |-> Len(heap) + 1,
     val |-> [is_valid |-> TRUE, issues |-> <<>>, row_count |-> 0,
              column_count |-> 0, required_columns |-> RequiredColumns]]

\* an issue string, by the parts its f-string is formatted from
Issue(kind, row, detail) == [kind |-> kind, row |-> row, detail |-> detail]

\* the issue appended without clearing is_valid
Fail_keeps_valid(vr, issue) ==
    [vr EXCEPT !.issues = Append(@, issue)]

\* validation_results["is_valid"] = False; validation_results["issues"].append(..)
Fail(vr, issue) ==
    [vr EXCEPT !.is_valid = FALSE, !.issues = Append(@, issue)]

\* iteration order of a set of column names under the process's hash seed
SetOrder ==
    IF hashseed = 0 THEN RequiredColumns
    ELSE [i \in 1..Len(RequiredColumns) |->
              RequiredColumns[Len(RequiredColumns) + 1 - i]]

InHeaders(headers, c) == \E i \in 1..Len(headers) : headers[i] = <<c>>

\* set(required_columns) - set(headers), in iteration order
missing_columns(headers) ==
    LET Missing(c) == ~InHeaders(headers, c)
    IN  SelectSeq(SetOrder, Missing)

CheckRequiredColumns(vr, headers) ==
    IF missing_columns(headers) # <<>>
    THEN Fail(vr, Issue("Missing required columns", 0, missing_columns(headers)))
    ELSE vr

\* the controlId tested as it is, not trimmed
CheckControlId_untrimmed(vr, cid, row_num) ==
    IF cid = <<>>
    THEN Fail(vr, Issue("Empty controlId", row_num, <<>>))
    ELSE vr

CheckControlId(vr, cid, row_num) ==
    IF strip(cid) = <<>>
    THEN Fail(vr, Issue("Empty controlId", row_num, <<>>))
    ELSE vr

CheckControlName(vr, cname, row_num) ==
    IF strip(cname) = <<>>
    THEN Fail(vr, Issue("Empty controlName", row_num, <<>>))
    ELSE vr

\* the duplicate check left out
CheckDuplicate_never(vr, control_id, control_ids, row_num) == vr

CheckDuplicate(vr, control_id, control_ids, row_num) ==
    IF control_id \in control_ids
    THEN Fail(vr, Issue("Duplicate controlId", row_num, control_id))
    ELSE vr

CheckSeverity(vr, severity, row_num) ==
    IF severity # <<>> /\ severity \notin AllowedSeverities
    THEN Fail(vr, Issue("Invalid severity", row_num, severity))
    ELSE vr

\* a handler that reports the error on a report started afresh
ParseError_restarts(vr, msg) ==
    [is_valid |-> FALSE,
     issues |-> <<Issue("CSV parsing error", 0, <<msg>>)>>,
     row_count |-> 0, column_count |-> 0, required_columns |-> RequiredColumns]

\* except Exception as e: the handler of the whole body
ParseError(vr, msg) == Fail(vr, Issue("CSV parsing error", 0, <<msg>>))

NewlineError == "new-line character seen in unquoted field"
NoneTypeError == "'NoneType' object has no attribute 'strip'"

\* the counter started at 0
row_num_init_zero == 1 - 1

row_num_init == 1

\* the body of the for loop for one row; raised: .strip() was called on None
ValidateRow(vr, headers, row, control_ids, row_num) ==
    LET cid == row_get(headers, row, "controlId", <<>>)
        cname == row_get(headers, row, "controlName", <<>>)
        sev == row_get(headers, row, "severity", <<>>)
        v0 == [vr EXCEPT !.row_count = @ + 1]
        v1 == CheckControlId(v0, cid, row_num)
        v2 == CheckControlName(v1, cname, row_num)
        v3 == CheckDuplicate(v2, strip(cid), control_ids, row_num)
        v4 == CheckSeverity(v3, strip(sev), row_num)
    IN  IF cid = None
        THEN [raised |-> TRUE, vr |-> v0, control_ids |-> control_ids]
        ELSE IF cname = None
        THEN [raised |-> TRUE, vr |-> v1, control_ids |-> control_ids]
        ELSE IF sev = None
        THEN [raised |-> TRUE, vr |-> v3,
              control_ids |-> control_ids \cup {strip(cid)}]
        ELSE [raised |-> FALSE, vr |-> v4,
              control_ids |-> control_ids \cup {strip(cid)}]

\* for row in csv_reader: ...
RECURSIVE ValidateRows(_, _, _, _, _, _)
ValidateRows(vr, text, pos, headers, control_ids, row_num) ==
    LET r == DictReader_next(text, pos)
    IN  IF r.kind = "stop" THEN vr
        ELSE IF r.kind = "error" THEN ParseError(vr, NewlineError)
        ELSE LET step == ValidateRow(vr, headers, r.fields, control_ids,
                                     row_num + 1)
             IN  IF step.raised THEN ParseError(step.vr, NoneTypeError)
                 ELSE ValidateRows(step.vr, text, r.pos, headers,
                                   step.control_ids, row_num + 1)

\* the header read like a data row: blank records skipped
fieldnames_skipping_blank(text) == DictReader_next(text, 1)

\* DictReader.fieldnames: the first record of the text, whatever it is
fieldnames(text) == reader_next(text, 1)

\* the validation given up once a required column is found missing
validate_csv_format_stops(text) ==
    LET validation_results == validation_results_new.val
        first == fieldnames(text)
        headers == first.fields
    IN  IF first.kind = "error"
        THEN ParseError(validation_results, NewlineError)
        ELSE IF first.kind = "stop" \/ headers = <<>>
        THEN Fail(validation_results, Issue("No headers found in CSV", 0, <<>>))
        ELSE IF missing_columns(headers) # <<>>
        THEN CheckRequiredColumns(validation_results, headers)
        ELSE ValidateRows(
                 [validation_results EXCEPT !.column_count = Len(headers)],
                 text, first.pos, headers, {}, row_num_init)

validate_csv_format(text) ==
    LET validation_results == validation_results_new.val
        first == fieldnames(text)
        headers == first.fields
    IN  IF first.kind = "error"
        THEN ParseError(validation_results, NewlineError)
        ELSE IF first.kind = "stop" \/ headers = <<>>
        THEN Fail(validation_results, Issue("No headers found in CSV", 0, <<>>))
        ELSE ValidateRows(
                 [CheckRequiredColumns(validation_results, headers)
                     EXCEPT !.column_count = Len(headers)],
                 text, first.pos, headers, {}, row_num_init)

\* ------------------------------------------------------------------------
\* The caller's tables and the CSV text written from them
\* ------------------------------------------------------------------------
\* a data row, by the value of its columns; every column other than
\* controlId, controlName and severity holds rest.  cut = 0: one field per
\* column; cut = k > 0: only the first k fields; cut = -1: one field too many
Row(id, name, sev, rest, cut) ==
    [id |-> id, name |-> name, sev |-> sev, rest |-> rest, cut |-> cut]

NotSpecified == <<"Not specified">>

RowChoices ==
    { Row(<<"A">>, <<"n">>, <<"High">>, NotSpecified, 0),
      Row(<<"A", SP>>, <<"n">>, <<"Critical">>, <<"x", COMMA, QUOTE, "y">>, 0),
      Row(<<SP>>, <<"n">>, <<"Medium">>, <<"x", LF, "y">>, 0),
      Row(<<"B">>, <<>>, <<"Urgent">>, <<"x", CR, "y">>, 0),
      Row(<<"C">>, <<"n">>, <<>>, <<>>, 0),
      Row(<<"B">>, <<"n">>, <<"High">>, NotSpecified, 1),
      Row(<<"C">>, <<"n">>, <<"High">>, NotSpecified, 3),
      Row(<<"C">>, <<"n">>, <<SP, "Low">>, NotSpecified, -1) }

HeaderChoices ==
    { RequiredColumns,
      RequiredColumns \o <<"extra">>,
      <<"controlId", "controlName", "policies", "awsConfig",
        "implementation", "relatedRequirements">>,
      <<"controlName", "severity", "awsConfig", "implementation",
        "relatedRequirements">>,
      <<"severity", "controlId", "controlId", "controlName">>,
      <<>> }

\* how the text is written: quoting of fields that need it, the line
\* terminator, a terminator after the last line, a blank line before each row
Style(quoting, eol, trailing, blank) ==
    [quoting |-> quoting, eol |-> eol, trailing |-> trailing, blank |-> blank]

StyleChoices ==
    { Style(TRUE, <<LF>>, FALSE, FALSE),
      Style(TRUE, <<CR, LF>>, TRUE, TRUE),
      Style(FALSE, <<LF>>, TRUE, FALSE) }

RECURSIVE SeqsUpTo(_, _)
SeqsUpTo(S, n) ==
    IF n = 0 THEN {<<>>}
    ELSE LET shorter == SeqsUpTo(S, n - 1)
         IN  shorter \cup {Append(q, x) : q \in shorter, x \in S}

Tables ==
    { [cols |-> h, rows |-> rs, style |-> st] :
          h \in HeaderChoices, rs \in SeqsUpTo(RowChoices, MaxRows),
          st \in StyleChoices }

ColumnValue(row, c) ==
    CASE c = "controlId" -> row.id
      [] c = "controlName" -> row.name
      [] c = "severity" -> row.sev
      [] OTHER -> row.rest

\* the fields a row is written with under the columns cols
RowFields(cols, row) ==
    LET layout == IF cols = <<>> THEN RequiredColumns ELSE cols
        full == [i \in 1..Len(layout) |-> ColumnValue(row, layout[i])]
    IN  IF row.cut = 0 THEN full
        ELSE IF row.cut > 0
        THEN SubSeq(full, 1, IF row.cut < Len(full) THEN row.cut ELSE Len(full))
        ELSE Append(full, <<"zzz">>)

NeedsQuote(f) == \E i \in 1..Len(f) : f[i] \in {COMMA, QUOTE, CR, LF}

RECURSIVE DoubleQuotes(_)
DoubleQuotes(f) ==
    IF f = <<>> THEN <<>>
    ELSE IF Head(f) = QUOTE THEN <<QUOTE, QUOTE>> \o DoubleQuotes(Tail(f))
    ELSE <<Head(f)>> \o DoubleQuotes(Tail(f))

WriteField(f, style) ==
    IF style.quoting /\ NeedsQuote(f)
    THEN <<QUOTE>> \o DoubleQuotes(f) \o <<QUOTE>>
    ELSE f

RECURSIVE WriteRow(_, _)
WriteRow(fields, style) ==
    IF fields = <<>> THEN <<>>
    ELSE IF Len(fields) = 1 THEN WriteField(fields[1], style)
    ELSE WriteField(Head(fields), style) \o <<COMMA>>
             \o WriteRow(Tail(fields), style)

RECURSIVE WriteRows(_, _, _)
WriteRows(cols, rows, style) ==
    IF rows = <<>> THEN <<>>
    ELSE style.eol \o (IF style.blank THEN style.eol ELSE <<>>)
             \o WriteRow(RowFields(cols, Head(rows)), style)
             \o WriteRows(cols, Tail(rows), style)

\* the CSV text of a table
WriteTable(t) ==
    WriteRow([i \in 1..Len(t.cols) |-> <<t.cols[i]>>], t.style)
        \o WriteRows(t.cols, t.rows, t.style)
        \o (IF t.style.trailing THEN t.style.eol ELSE <<>>)

\* a second text, validated in between the calls on csv_content
OtherTable ==
    [cols |-> RequiredColumns,
     rows |-> << Row(<<"A">>, <<>>, <<"High">>, NotSpecified, 0) >>,
     style |-> Style(TRUE, <<LF>>, FALSE, FALSE)]

\* the tables of the repeated-call specification
RepeatTables ==
    { t \in Tables :
          /\ t.style = Style(TRUE, <<LF>>, FALSE, FALSE)
          /\ t.cols \in { RequiredColumns,
                          <<"controlName", "severity", "awsConfig",
                            "implementation", "relatedRequirements">> }
          /\ \A k \in DOMAIN t.rows :
                t.rows[k] \in
                    { Row(<<"A">>, <<"n">>, <<"High">>, NotSpecified, 0),
                      Row(<<"B">>, <<>>, <<"Urgent">>, <<"x", CR, "y">>, 0),
                      Row(<<"B">>, <<"n">>, <<"High">>, NotSpecified, 1) } }

\* ------------------------------------------------------------------------
\* Specifications
\* ------------------------------------------------------------------------
InitWith(tables) ==
    /\ hashseed \in {0, 1}
    /\ table \in tables
    /\ csv_content = WriteTable(table)
    /\ heap = <<>>
    /\ calls = <<>>
    /\ document = Unused
    /\ doc_text = Unused
    /\ extracted = Unused
    /\ summary = Unused
    /\ request = Unused
    /\ messages = <<>>
    /\ results = NotReturned
    /\ files = {}
    /\ aws_services = <<>>
    /\ runs = <<>>
    /\ all_controls = <<>>
    /\ master_csv_content = Unused
    /\ response = NoResponse
    /\ reruns = <<>>
    /\ service_data = <<>>
    /\ mcp_client = None
    /\ tool_results = <<>>
    /\ analyses = <<>>

Init == InitWith(Tables)

\* one call of validate_csv_format(text); the caller keeps the returned dict
Call(text) ==
    LET new == validation_results_new
        report == validate_csv_format(text)
    IN  /\ heap' = [i \in 1..(IF new.ref > Len(heap) THEN new.ref
                               ELSE Len(heap)) |->
                        IF i = new.ref THEN report ELSE heap[i]]
        /\ calls' = Append(calls, [csv |-> text, ret |-> report,
                                   ref |-> new.ref])
        /\ UNCHANGED <<hashseed, table, csv_content, extractorVars,
                       coordinatorVars,
                   batchVars,
                   apiVars>>

\* the validation of csv_content
Validate ==
    /\ calls = <<>>
    /\ Call(csv_content)

Next == Validate

\* every text is validated once
Spec == Init /\ [][Next]_vars

\* a further call on csv_content
ValidateAgain ==
    /\ Len(calls) < MaxCalls
    /\ Call(csv_content)

\* a call on another text
ValidateOther ==
    /\ Len(calls) < MaxCalls
    /\ Call(WriteTable(OtherTable))

\* the caller changes the report it was handed last (a plain dict of plain
\* lists)
CallerMutates ==
    /\ calls # <<>>
    /\ heap[calls[Len(calls)].ref] = calls[Len(calls)].ret
    /\ heap' = [heap EXCEPT ![calls[Len(calls)].ref] =
                   [@ EXCEPT !.is_valid = ~@,
                             !.issues = Append(@, Issue("caller", 0, <<>>))]]
    /\ UNCHANGED <<hashseed, table, csv_content, calls, extractorVars,
                   coordinatorVars,
                   batchVars,
                   apiVars>>

InitRepeat == InitWith(RepeatTables)

NextRepeat == ValidateAgain \/ ValidateOther \/ CallerMutates

\* texts are validated again and again by one process
SpecRepeat == InitRepeat /\ [][NextRepeat]_vars

\* ------------------------------------------------------------------------
\* What the caller's table says, independently of the text and its parsing
\* ------------------------------------------------------------------------
Range(f) == {f[i] : i \in DOMAIN f}

\* the reports returned for csv_content so far
Reports == {calls[i].ret : i \in {j \in DOMAIN calls : calls[j].csv = csv_content}}

HasHeader == table.cols # <<>>

MissingInTable == {c \in Range(RequiredColumns) : c \notin Range(table.cols)}

NumRows == Len(table.rows)

TableFields(k) == RowFields(table.cols, table.rows[k])

\* a row is written cleanly when its fields come back as they were written:
\* quoted where needed, or free of the characters that need quoting
RowClean(k) ==
    table.style.quoting \/ \A i \in DOMAIN TableFields(k) : ~NeedsQuote(TableFields(k)[i])

AllClean == \A k \in 1..NumRows : RowClean(k)

Absent == <<"<absent>">>

\* the field of row k under column c: the last column of that name; the
\* empty string when the table has no such column; Absent when the row
\* stops before it
TableValue(k, c) ==
    IF c \notin Range(table.cols) THEN <<>>
    ELSE LET i == CHOOSE n \in DOMAIN table.cols :
                      /\ table.cols[n] = c
                      /\ \A m \in DOMAIN table.cols : m > n => table.cols[m] # c
         IN  IF i <= Len(TableFields(k)) THEN TableFields(k)[i] ELSE Absent

RECURSIVE Trimmed(_)
Trimmed(f) ==
    IF f = <<>> THEN f
    ELSE IF Head(f) \in {SP, CR, LF} THEN Trimmed(Tail(f))
    ELSE IF f[Len(f)] \in {SP, CR, LF} THEN Trimmed(SubSeq(f, 1, Len(f) - 1))
    ELSE f

Blank(f) == Trimmed(f) = <<>>

IssuesOfKind(report, kind) ==
    {j \in DOMAIN report.issues : report.issues[j].kind = kind}

HasParseError(report) == IssuesOfKind(report, "CSV parsing error") # {}

\* ------------------------------------------------------------------------
\* Claims
\* ------------------------------------------------------------------------
SeverityTokens == {<<"Critical">>, <<"High">>, <<"Medium">>, <<"Low">>}

\* the text is the CSV of a table with all 7 required columns
FullTable == HasHeader /\ MissingInTable = {} /\ AllClean

WellFormedAsWritten ==
    /\ FullTable
    /\ \A k \in 1..NumRows :
          /\ TableValue(k, "controlId") \notin {<<>>, Absent}
          /\ TableValue(k, "controlName") \notin {<<>>, Absent}
          /\ TableValue(k, "severity") \in SeverityTokens
    /\ \A k1, k2 \in 1..NumRows :
          k1 # k2 => TableValue(k1, "controlId") # TableValue(k2, "controlId")

WellFormedTrimmed ==
    /\ FullTable
    /\ \A k \in 1..NumRows :
          /\ TableValue(k, "controlId") # Absent
          /\ ~Blank(TableValue(k, "controlId"))
          /\ TableValue(k, "controlName") # Absent
          /\ ~Blank(TableValue(k, "controlName"))
          /\ TableValue(k, "severity") \in SeverityTokens
    /\ \A k1, k2 \in 1..NumRows :
          k1 # k2 => Trimmed(TableValue(k1, "controlId"))
                        # Trimmed(TableValue(k2, "controlId"))

Accepted(r) == r.is_valid /\ r.issues = <<>> /\ r.row_count = NumRows

\* C1 as claimed: every table with all 7 required columns whose rows have a
\* non-empty controlId, a non-empty controlName, pairwise distinct controlIds
\* and a severity among the four tokens is accepted (is_valid, no issue,
\* row_count = number of data rows).  Fails: the fields are compared after
\* trimming, so "A" and "A " collide and " " counts as empty.
C1_AcceptsWellFormedAsWritten ==
    \A r \in Reports : WellFormedAsWritten => Accepted(r)

\* C1 amended: the same with controlId and controlName non-empty after
\* trimming whitespace and the controlIds pairwise distinct after trimming.
C1_AcceptsWellFormed ==
    \A r \in Reports : WellFormedTrimmed => Accepted(r)

C1_Witness ==
    /\ Reports # {}
    /\ WellFormedTrimmed
    /\ NumRows >= 2
    /\ \E k \in 1..NumRows : TableValue(k, "controlId") # Trimmed(TableValue(k, "controlId"))

\* C2: in every report returned, on every path, is_valid holds exactly when
\* the issues list is empty.
C2_ValidIffNoIssues ==
    \A i \in DOMAIN calls : calls[i].ret.is_valid <=> (calls[i].ret.issues = <<>>)

C2_Witness ==
    \E r \in Reports : HasParseError(r) /\ Len(r.issues) >= 2 /\ r.row_count >= 2

\* ------------------------------------------------------------------------
\* The issues a table calls for, row by row, computed on the table itself
\* ------------------------------------------------------------------------
IsPrefix(a, b) == Len(a) <= Len(b) /\ SubSeq(b, 1, Len(a)) = a

\* the rows 1..CleanPrefix are written cleanly
CleanPrefix ==
    IF AllClean THEN NumRows
    ELSE (CHOOSE k \in 1..NumRows :
              ~RowClean(k) /\ \A j \in 1..(k - 1) : RowClean(j)) - 1

\* the row ends before one of the three columns the validator reads
Stops(k) ==
    \E c \in {"controlId", "controlName", "severity"} : TableValue(k, c) = Absent

EmptyIdDefect(k) == Blank(TableValue(k, "controlId"))
EmptyNameDefect(k) == Blank(TableValue(k, "controlName"))
SeverityDefect(k) ==
    /\ ~Blank(TableValue(k, "severity"))
    /\ Trimmed(TableValue(k, "severity")) \notin SeverityTokens

If(cond, issue) == IF cond THEN <<issue>> ELSE <<>>

\* the issues of a row checked in full; n is the number it is labelled with
IssuesOfRow(k, seen, n) ==
    If(EmptyIdDefect(k), [kind |-> "Empty controlId", row |-> n, detail |-> <<>>])
    \o If(EmptyNameDefect(k),
          [kind |-> "Empty controlName", row |-> n, detail |-> <<>>])
    \o If(Trimmed(TableValue(k, "controlId")) \in seen,
          [kind |-> "Duplicate controlId", row |-> n,
           detail |-> Trimmed(TableValue(k, "controlId"))])
    \o If(SeverityDefect(k),
          [kind |-> "Invalid severity", row |-> n,
           detail |-> Trimmed(TableValue(k, "severity"))])

\* the issues of a row at which the validation stops
IssuesOfStoppingRow(k, seen, n) ==
    IF TableValue(k, "controlId") = Absent THEN <<>>
    ELSE If(EmptyIdDefect(k),
            [kind |-> "Empty controlId", row |-> n, detail |-> <<>>])
         \o (IF TableValue(k, "controlName") = Absent THEN <<>>
             ELSE If(EmptyNameDefect(k),
                     [kind |-> "Empty controlName", row |-> n, detail |-> <<>>])
                  \o If(Trimmed(TableValue(k, "controlId")) \in seen,
                        [kind |-> "Duplicate controlId", row |-> n,
                         detail |-> Trimmed(TableValue(k, "controlId"))]))

\* rows k..last checked in order, row j labelled j + off; stopped is the row
\* the validation stops at, 0 if none
RECURSIVE Expected(_, _, _, _)
Expected(k, last, seen, off) ==
    IF k > last THEN [issues |-> <<>>, stopped |-> 0]
    ELSE IF Stops(k)
    THEN [issues |-> IssuesOfStoppingRow(k, seen, k + off), stopped |-> k]
    ELSE LET rest == Expected(k + 1, last,
                              seen \cup {Trimmed(TableValue(k, "controlId"))}, off)
         IN  [issues |-> IssuesOfRow(k, seen, k + off) \o rest.issues,
              stopped |-> rest.stopped]

\* the issue for the missing columns comes first and names each of them
NamesMissing(r) ==
    /\ r.issues # <<>>
    /\ r.issues[1].kind = "Missing required columns"
    /\ Range(r.issues[1].detail) = MissingInTable
    /\ Len(r.issues[1].detail) = Cardinality(MissingInTable)

RowIssues(r) == IF MissingInTable = {} THEN r.issues ELSE Tail(r.issues)

NoneTypeIssue ==
    [kind |-> "CSV parsing error", row |-> 0,
     detail |-> <<"'NoneType' object has no attribute 'strip'">>]

NewlineIssue ==
    [kind |-> "CSV parsing error", row |-> 0,
     detail |-> <<"new-line character seen in unquoted field">>]

CountKind(r, kind) == Cardinality(IssuesOfKind(r, kind))

\* rows that call for an issue of the given kind when checked in full
RowsCallingFor(kind) ==
    {k \in 1..NumRows :
        /\ ~Stops(k)
        /\ CASE kind = "Empty controlId" -> EmptyIdDefect(k)
             [] kind = "Empty controlName" -> EmptyNameDefect(k)
             [] kind = "Invalid severity" -> SeverityDefect(k)
             [] kind = "Duplicate controlId" ->
                    \E j \in 1..(k - 1) :
                        /\ ~Stops(j)
                        /\ Trimmed(TableValue(j, "controlId"))
                              = Trimmed(TableValue(k, "controlId"))}

RowKinds ==
    {"Empty controlId", "Empty controlName", "Duplicate controlId",
     "Invalid severity"}

\* C3 as claimed: when the header lacks a required column the report is
\* invalid, names each missing column, and every data row is still checked
\* and its row-level issues recorded.  Fails: a row that raises a parsing
\* exception ends the validation, the rows after it are not checked.
C3_MissingColumnChecksEveryRow ==
    \A r \in Reports :
        (HasHeader /\ MissingInTable # {} /\ AllClean) =>
            /\ ~r.is_valid
            /\ NamesMissing(r)
            /\ r.row_count = NumRows
            /\ \A kind \in RowKinds :
                  CountKind(r, kind) >= Cardinality(RowsCallingFor(kind))

\* C3 amended: when the header lacks a required column the report is
\* invalid, its first issue names each missing column, and the validation
\* goes on: the data rows are checked in order and their row-level issues
\* recorded in the same report, up to the end of the table or the first row
\* that raises a parsing exception.
C3_MissingColumnGoesOn ==
    \A r \in Reports :
        (HasHeader /\ MissingInTable # {}) =>
            LET e == Expected(1, CleanPrefix, {}, 1)
            IN  /\ ~r.is_valid
                /\ NamesMissing(r)
                /\ IsPrefix(e.issues, Tail(r.issues))
                /\ (AllClean /\ e.stopped = 0) =>
                       (Tail(r.issues) = e.issues /\ r.row_count = NumRows)
                /\ e.stopped # 0 =>
                       /\ Tail(r.issues) = e.issues \o <<NoneTypeIssue>>
                       /\ r.row_count = e.stopped

C3_Witness ==
    /\ HasHeader /\ Cardinality(MissingInTable) >= 2 /\ AllClean
    /\ \E r \in Reports :
          /\ r.row_count = 2
          /\ ~HasParseError(r)
          /\ CountKind(r, "Duplicate controlId") = 1
          /\ CountKind(r, "Empty controlName") >= 1

\* every row has a controlId field
EveryRowHasId == \A k \in 1..NumRows : TableValue(k, "controlId") # Absent

\* C4 as claimed: the number of 'Duplicate controlId' issues equals the
\* number of data rows minus the number of distinct controlId values.
\* Fails: the values are compared after trimming, and a row that raises a
\* parsing exception ends the validation before its duplicate check.
C4_DuplicatesCountAsWritten ==
    \A r \in Reports :
        (FullTable /\ EveryRowHasId) =>
            CountKind(r, "Duplicate controlId")
                = NumRows - Cardinality({TableValue(k, "controlId") : k \in 1..NumRows})

\* C4 amended: controlIds are compared after trimming; the first row carrying
\* a controlId is not flagged, a later row carrying it gets exactly one
\* 'Duplicate controlId' issue when the validation reaches its duplicate
\* check, and when no parsing error ends the validation the number of
\* duplicate issues is the number of data rows minus the number of distinct
\* trimmed controlId values.
C4_DuplicatesCount ==
    \A r \in Reports :
        (HasHeader /\ AllClean) =>
            LET dups == IssuesOfKind(r, "Duplicate controlId")
                Id(k) == Trimmed(TableValue(k, "controlId"))
            IN  /\ \A j \in dups :
                      LET k == r.issues[j].row - 1
                      IN  /\ k \in 1..NumRows
                          /\ r.issues[j].detail = Id(k)
                          /\ \E k0 \in 1..(k - 1) : Id(k0) = Id(k)
                /\ \A j1, j2 \in dups :
                      j1 # j2 => r.issues[j1].row # r.issues[j2].row
                /\ ~HasParseError(r) =>
                      Cardinality(dups)
                          = NumRows - Cardinality({Id(k) : k \in 1..NumRows})

C4_Witness ==
    /\ HasHeader /\ AllClean /\ NumRows = 2
    /\ TableValue(1, "controlId") # TableValue(2, "controlId")
    /\ \E r \in Reports :
          ~HasParseError(r) /\ CountKind(r, "Duplicate controlId") = 1

NoHeadersReport ==
    [is_valid |-> FALSE,
     issues |-> <<[kind |-> "No headers found in CSV", row |-> 0, detail |-> <<>>]>>,
     row_count |-> 0, column_count |-> 0,
     required_columns |-> <<"controlId", "controlName", "severity", "policies",
                            "awsConfig", "implementation", "relatedRequirements">>]

\* C5: when the text has no header row (empty text or empty first line) the
\* report is is_valid = false with exactly one issue, row_count = 0 and
\* column_count = 0: no row is examined.
C5_NoHeaderRow ==
    \A r \in Reports : ~HasHeader => r = NoHeadersReport

C5_Witness ==
    /\ ~HasHeader
    /\ NumRows = 2
    /\ \E k \in 1..NumRows : EmptyIdDefect(k) \/ EmptyNameDefect(k)
    /\ Reports # {}

\* the row is written with a bare CR inside a line
RawCR(k) ==
    /\ ~RowClean(k)
    /\ \E i \in DOMAIN TableFields(k) :
          \E n \in DOMAIN TableFields(k)[i] : TableFields(k)[i][n] = CR

IsReport(r) ==
    /\ DOMAIN r = {"is_valid", "issues", "row_count", "column_count",
                   "required_columns"}
    /\ r.is_valid \in BOOLEAN
    /\ r.row_count \in Nat
    /\ r.column_count \in Nat
    /\ \A j \in DOMAIN r.issues :
          DOMAIN r.issues[j] = {"kind", "row", "detail"}

\* C6: every call returns a report; an exception raised while the rows are
\* read ends the validation with is_valid = false and exactly one 'CSV
\* parsing error' issue, appended to the issues accumulated before the
\* failure, with the row_count accumulated before it.
C6_ExceptionBecomesIssue ==
    /\ \A i \in DOMAIN calls :
          LET r == calls[i].ret
          IN  /\ IsReport(r)
              /\ CountKind(r, "CSV parsing error") <= 1
              /\ HasParseError(r) =>
                    (~r.is_valid /\ r.issues[Len(r.issues)].kind = "CSV parsing error")
    /\ \A r \in Reports :
          HasHeader =>
              LET e == Expected(1, CleanPrefix, {}, 1)
              IN  /\ MissingInTable # {} => NamesMissing(r)
                  /\ e.stopped # 0 =>
                        /\ RowIssues(r) = e.issues \o <<NoneTypeIssue>>
                        /\ r.row_count = e.stopped
                  /\ (e.stopped = 0 /\ CleanPrefix < NumRows /\ RawCR(CleanPrefix + 1)) =>
                        /\ RowIssues(r) = e.issues \o <<NewlineIssue>>
                        /\ r.row_count = CleanPrefix
                  /\ (e.stopped = 0 /\ AllClean) =>
                        /\ RowIssues(r) = e.issues
                        /\ r.row_count = NumRows

C6_Witness ==
    /\ HasHeader /\ MissingInTable # {}
    /\ \E r \in Reports :
          /\ Len(r.issues) >= 3
          /\ r.row_count >= 1
          /\ r.issues[Len(r.issues)] \in {NoneTypeIssue, NewlineIssue}

\* C7: a data row whose number of fields differs from the number of header
\* columns, fewer or more, makes the report invalid.  The code does not do
\* this: surplus fields are ignored, and so are missing fields in columns
\* other than controlId, controlName and severity.
C7_RaggedRowIsInvalid ==
    \A r \in Reports :
        (HasHeader /\ AllClean
            /\ \E k \in 1..NumRows : Len(TableFields(k)) # Len(table.cols))
        => ~r.is_valid

\* the rows the validation checks in full: those before the row it stops at
CheckedInFull(k) ==
    \A j \in 1..k : ~Stops(j)

\* C8 as claimed: an issue found in the k-th data row (k = 1 for the first
\* row after the header) is labelled with row number k.  Fails: the counter
\* starts at 1 and is incremented before the first row is checked.
C8_RowLabelIsRowIndex ==
    \A r \in Reports :
        FullTable =>
            \A k \in 1..NumRows :
                (CheckedInFull(k) /\ EmptyIdDefect(k)) =>
                    \E j \in DOMAIN r.issues :
                        r.issues[j] = [kind |-> "Empty controlId", row |-> k,
                                       detail |-> <<>>]

HasDefect(k, kind) ==
    CASE kind = "Empty controlId" -> EmptyIdDefect(k)
      [] kind = "Empty controlName" -> EmptyNameDefect(k)
      [] kind = "Invalid severity" -> SeverityDefect(k)
      [] kind = "Duplicate controlId" ->
             \E j \in 1..(k - 1) :
                 Trimmed(TableValue(j, "controlId"))
                     = Trimmed(TableValue(k, "controlId"))

\* C8 amended: the counter counts the header as row 1: an issue found in
\* the k-th data row is labelled with row number k + 1, whatever blank
\* lines or line breaks inside quoted fields the text has.
C8_RowLabelCountsHeader ==
    \A r \in Reports :
        (HasHeader /\ AllClean) =>
            /\ \A j \in DOMAIN r.issues :
                  r.issues[j].kind \in RowKinds =>
                      /\ r.issues[j].row - 1 \in 1..NumRows
                      /\ TableValue(r.issues[j].row - 1, "controlId") # Absent
                      /\ HasDefect(r.issues[j].row - 1, r.issues[j].kind)
            /\ \A k \in 1..NumRows :
                  \A kind \in RowKinds :
                      (CheckedInFull(k) /\ HasDefect(k, kind)) =>
                          \E j \in DOMAIN r.issues :
                              r.issues[j].kind = kind /\ r.issues[j].row = k + 1

C8_Witness ==
    /\ HasHeader /\ AllClean /\ table.style.blank
    /\ NumRows = 2 /\ CheckedInFull(2)
    /\ ~EmptyIdDefect(1) /\ EmptyIdDefect(2)
    /\ \E r \in Reports :
          \E j \in DOMAIN r.issues :
              r.issues[j].kind = "Empty controlId" /\ r.issues[j].row = 3

FreeTextColumns == {"policies", "awsConfig", "implementation", "relatedRequirements"}

ChangedByCaller(r) ==
    [r EXCEPT !.is_valid = ~@,
              !.issues = Append(@, [kind |-> "caller", row |-> 0, detail |-> <<>>])]

BACKTICK == "<backtick>"
HASH == "#"
STAR == "*"
COLON == ":"

\* a Markdown fence mark
Fence == <<BACKTICK, BACKTICK, BACKTICK>>

\* ------------------------------------------------------------------------
\* re.search(pattern, text, flags): backtracking, the leftmost match wins
\* ------------------------------------------------------------------------
\* str.lower() of the words that come in more than one case
lower(a) ==
    CASE a = "CSV" -> "csv"
      [] a = "Output" -> "output"
      [] a = "OUTPUT" -> "output"
      [] a = "Final" -> "final"
      [] a = "Validated" -> "validated"
      [] a = "Summary" -> "summary"
      [] a = "S3" -> "s3"
      [] a = "Lambda" -> "lambda"
      [] OTHER -> a

\* str.upper() of the subjects
upper(a) ==
    CASE a = "Lambda" -> "LAMBDA"
      [] OTHER -> a

\* the literal lit matches text at position i
LiteralAt(txt, i, lit, ignorecase) ==
    /\ i + Len(lit) - 1 <= Len(txt)
    /\ \A k \in 1..Len(lit) :
          IF ignorecase THEN lower(txt[i + k - 1]) = lower(lit[k])
          ELSE txt[i + k - 1] = lit[k]

\* pattern items: a literal, or a greedy class*
Lit(atoms) == [kind |-> "lit", lit |-> atoms, class |-> {}]
ClassStar(class) == [kind |-> "star", lit |-> <<>>, class |-> class]

\* the longest run of class characters from position j
RECURSIVE ClassRun(_, _, _)
ClassRun(txt, j, class) ==
    IF j <= Len(txt) /\ txt[j] \in class
    THEN 1 + ClassRun(txt, j + 1, class)
    ELSE 0

\* the positions at which the items can end when they start at i, in the
\* order backtracking tries them: a star gives up one character at a time
RECURSIVE ItemEnds(_, _, _, _)
RECURSIVE StarEnds(_, _, _, _, _)
ItemEnds(txt, i, items, ignorecase) ==
    IF items = <<>> THEN <<i>>
    ELSE IF Head(items).kind = "lit"
    THEN IF LiteralAt(txt, i, Head(items).lit, ignorecase)
         THEN ItemEnds(txt, i + Len(Head(items).lit), Tail(items), ignorecase)
         ELSE <<>>
    ELSE StarEnds(txt, i, ClassRun(txt, i, Head(items).class), Tail(items),
                  ignorecase)

StarEnds(txt, i, k, rest, ignorecase) ==
    ItemEnds(txt, i + k, rest, ignorecase)
        \o (IF k = 0 THEN <<>> ELSE StarEnds(txt, i, k - 1, rest, ignorecase))

\* what follows the group (.+?): a fence mark, or the lookahead
\* (?=\n##|\n\*|\Z)
EndsAt(txt, e, until) ==
    IF until = "fence" THEN LiteralAt(txt, e, Fence, FALSE)
    ELSE \/ LiteralAt(txt, e, <<LF, HASH, HASH>>, FALSE)
         \/ LiteralAt(txt, e, <<LF, STAR>>, FALSE)
         \/ e = Len(txt) + 1

\* (.+?) from position g under re.DOTALL: the shortest non-empty span that
\* is followed by the terminator; 0 when there is none
GroupEnd(txt, g, until) ==
    LET ends == {e \in (g + 1)..(Len(txt) + 1) : EndsAt(txt, e, until)}
    IN  IF ends = {} THEN 0
        ELSE CHOOSE e \in ends : \A f \in ends : e <= f

\* (.+) from position g without re.DOTALL, at the end of a pattern: the
\* rest of the line, which must not be empty; 0 when it is
LineEndFrom(txt, g) ==
    IF g > Len(txt) \/ txt[g] = LF THEN 0
    ELSE LET ends == {e \in (g + 1)..(Len(txt) + 1) :
                          e = Len(txt) + 1 \/ txt[e] = LF}
         IN  CHOOSE e \in ends : \A f \in ends : e <= f

GroupEndOf(txt, g, until) ==
    IF until = "line" THEN LineEndFrom(txt, g) ELSE GroupEnd(txt, g, until)

\* the first group start, in backtracking order, from which the group
\* matches; 0 when there is none
RECURSIVE FirstGroupStart(_, _, _)
FirstGroupStart(txt, starts, until) ==
    IF starts = <<>> THEN 0
    ELSE IF GroupEndOf(txt, Head(starts), until) # 0 THEN Head(starts)
    ELSE FirstGroupStart(txt, Tail(starts), until)

GroupStartAt(txt, i, pattern) ==
    FirstGroupStart(txt, ItemEnds(txt, i, pattern.items, pattern.ignorecase),
                    pattern.until)

\* re.search(pattern, text): group(1) of the leftmost match, or None
search(pattern, txt) ==
    LET at == {i \in 1..(Len(txt) + 1) : GroupStartAt(txt, i, pattern) # 0}
    IN  IF at = {} THEN None
        ELSE LET i == CHOOSE i \in at : \A j \in at : i <= j
                 g == GroupStartAt(txt, i, pattern)
             IN  SubSeq(txt, g, GroupEndOf(txt, g, pattern.until) - 1)

\* ------------------------------------------------------------------------
\* AWSDocumentationAnalyzer.extract_csv_from_text
\* ------------------------------------------------------------------------
Pattern(items, until, ignorecase) ==
    [items |-> items, until |-> until, ignorecase |-> ignorecase]

\* r'```csv\s*(.+?)```'
CsvFencePattern ==
    Pattern(<<Lit(Fence \o <<"csv">>), ClassStar(Whitespace)>>, "fence", TRUE)

\* r'```\s*(.+?)```'
AnyFencePattern ==
    Pattern(<<Lit(Fence), ClassStar(Whitespace)>>, "fence", TRUE)

\* r'CSV Output[:\s]*(.+?)(?=\n##|\n\*|\Z)'
CsvOutputPattern ==
    Pattern(<<Lit(<<"CSV", SP, "Output">>),
              ClassStar(Whitespace \cup {COLON})>>, "section", TRUE)

\* r'Final Validated CSV[:\s]*```csv\s*(.+?)```'
FinalCsvPattern ==
    Pattern(<<Lit(<<"Final", SP, "Validated", SP, "CSV">>),
              ClassStar(Whitespace \cup {COLON}),
              Lit(Fence \o <<"csv">>), ClassStar(Whitespace)>>, "fence", TRUE)

csv_patterns ==
    <<CsvFencePattern, AnyFencePattern, CsvOutputPattern, FinalCsvPattern>>

\* ',' in s, '\n' in s
Contains(s, c) == \E i \in DOMAIN s : s[i] = c

\* "basic validation that it looks like CSV"
LooksLikeCsv(s) == Contains(s, COMMA) /\ Contains(s, LF)

\* the loop over csv_patterns, from the k-th pattern on
RECURSIVE TryPatterns(_, _)
TryPatterns(txt, k) ==
    IF k > Len(csv_patterns) THEN <<>>
    ELSE LET match == search(csv_patterns[k], txt)
         IN  IF match # None /\ LooksLikeCsv(strip(match))
             THEN strip(match)
             ELSE TryPatterns(txt, k + 1)

extract_csv_from_text(txt) == TryPatterns(txt, 1)

\* ------------------------------------------------------------------------
\* AWSDocumentationAnalyzer.get_service_security_summary: the '## Summary'
\* section of the Read stage's output
\* ------------------------------------------------------------------------
\* r'## Summary\s*\n(.+?)(?=\n##|\n\*|\Z)'
SummaryPattern ==
    Pattern(<<Lit(<<HASH, HASH, SP, "Summary">>), ClassStar(Whitespace),
              Lit(<<LF>>)>>, "section", FALSE)

summary_match(controls) == search(SummaryPattern, controls)

\* ------------------------------------------------------------------------
\* The texts the extractor is run on: stage output written block by block
\* in the layout the stage instructions ask for
\* ------------------------------------------------------------------------
MaxBlocks == 3

Block(kind, body) == [kind |-> kind, body |-> body]

HeaderLine == <<"controlId", COMMA, "controlName">>

BodyChoices ==
    { <<>>,
      HeaderLine,
      HeaderLine \o <<LF, "A", COMMA, "n">> }

BlockKinds == {"prose", "fence_csv", "fence", "output", "final"}

BlockChoices == {Block(k, b) : k \in BlockKinds, b \in BodyChoices}

Documents == SeqsUpTo(BlockChoices, MaxBlocks)

\* a fenced block with the given language tag
WriteFence(tag, body) ==
    Fence \o tag \o <<LF>>
        \o (IF body = <<>> THEN <<>> ELSE body \o <<LF>>)
        \o Fence \o <<LF>>

WriteBlock(b) ==
    CASE b.kind = "prose" -> b.body \o <<LF>>
      [] b.kind = "fence_csv" -> WriteFence(<<"csv">>, b.body)
      [] b.kind = "fence" -> WriteFence(<<>>, b.body)
      [] b.kind = "output" -> <<"CSV", SP, "Output", COLON, LF>> \o b.body \o <<LF>>
      [] b.kind = "final" ->
            <<HASH, HASH, SP, "Final", SP, "Validated", SP, "CSV", LF>>
                \o WriteFence(<<"csv">>, b.body)
      [] b.kind = "title" -> <<HASH, SP>> \o b.body \o <<LF>>
      [] b.kind = "h2" -> <<HASH, HASH, SP>> \o b.body \o <<LF>>
      [] b.kind = "h3" -> <<HASH, HASH, HASH, SP>> \o b.body \o <<LF>>
      [] b.kind = "bullet" -> <<STAR, SP>> \o b.body \o <<LF>>
      [] b.kind = "dash" -> <<"-", SP>> \o b.body \o <<LF>>
      [] b.kind = "url" ->
            <<STAR, STAR, "URL", COLON, STAR, STAR, SP>> \o b.body \o <<LF>>

RECURSIVE WriteDocument(_)
WriteDocument(doc) ==
    IF doc = <<>> THEN <<>>
    ELSE WriteBlock(Head(doc)) \o WriteDocument(Tail(doc))

\* ------------------------------------------------------------------------
\* The extractor's specification: every text is extracted from once
\* ------------------------------------------------------------------------
InitExtract ==
    /\ hashseed = 0
    /\ table = Unused
    /\ csv_content = Unused
    /\ heap = <<>>
    /\ calls = <<>>
    /\ document \in Documents
    /\ doc_text = WriteDocument(document)
    /\ extracted = Unused
    /\ summary = Unused
    /\ request = Unused
    /\ messages = <<>>
    /\ results = NotReturned
    /\ files = {}
    /\ aws_services = <<>>
    /\ runs = <<>>
    /\ all_controls = <<>>
    /\ master_csv_content = Unused
    /\ response = NoResponse
    /\ reruns = <<>>
    /\ service_data = <<>>
    /\ mcp_client = None
    /\ tool_results = <<>>
    /\ analyses = <<>>

Extract ==
    /\ extracted = Unused
    /\ extracted' = extract_csv_from_text(doc_text)
    /\ UNCHANGED <<validatorVars, document, doc_text, summary, coordinatorVars,
                   batchVars,
                   apiVars>>

NextExtract == Extract

SpecExtract == InitExtract /\ [][NextExtract]_vars

\* ------------------------------------------------------------------------
\* What the document says, independently of the patterns
\* ------------------------------------------------------------------------
\* a block that is not there
Missing == <<"<missing>">>

IsCsvFenced(b) == b.kind \in {"fence_csv", "final"}
IsFenced(b) == b.kind \in {"fence_csv", "fence", "final"}
IsOutput(b) == b.kind = "output"
IsFinal(b) == b.kind = "final"

\* the index of the first block of a kind; 0 when there is none
FirstOf(doc, Is(_)) ==
    LET at == {i \in DOMAIN doc : Is(doc[i])}
    IN  IF at = {} THEN 0 ELSE CHOOSE i \in at : \A j \in at : i <= j

\* the text between the marks of a fenced block: the tag line and the body
Inside(b) ==
    (IF IsCsvFenced(b) THEN <<"csv", LF>> ELSE <<>>) \o b.body

\* the blocks that follow block i up to the next heading
RECURSIVE SectionRest(_, _)
SectionRest(doc, i) ==
    IF i > Len(doc) \/ IsFinal(doc[i]) THEN <<>>
    ELSE WriteBlock(doc[i]) \o SectionRest(doc, i + 1)

\* the four candidates of a document, in priority order
Candidates(doc) ==
    LET c == FirstOf(doc, IsCsvFenced)
        f == FirstOf(doc, IsFenced)
        o == FirstOf(doc, IsOutput)
        v == FirstOf(doc, IsFinal)
    IN  << IF c = 0 THEN Missing ELSE doc[c].body,
           IF f = 0 THEN Missing ELSE Inside(doc[f]),
           IF o = 0 THEN Missing
           ELSE doc[o].body \o <<LF>> \o SectionRest(doc, o + 1),
           IF v = 0 THEN Missing ELSE doc[v].body >>

Qualifies(c) ==
    /\ c # Missing
    /\ \E i \in DOMAIN Trimmed(c) : Trimmed(c)[i] = COMMA
    /\ \E i \in DOMAIN Trimmed(c) : Trimmed(c)[i] = LF

\* the trimmed content of the first candidate that qualifies
FirstQualifying(doc) ==
    LET q == {k \in 1..4 : Qualifies(Candidates(doc)[k])}
    IN  IF q = {} THEN <<>>
        ELSE Trimmed(Candidates(doc)[CHOOSE k \in q : \A j \in q : k <= j])

\* C11: extract_csv_from_text returns the trimmed content of the first of
\* its four candidates - the first csv-tagged fenced block, the first fenced
\* block, the 'CSV Output' section, the fenced block of the 'Final Validated
\* CSV' section - that contains a comma and a line break, and the empty
\* text when none does.
C11_FirstQualifyingCandidate ==
    extracted # Unused => extracted = FirstQualifying(document)

\* ------------------------------------------------------------------------
\* The Read stage's output, line by line, and the specification of
\* get_service_security_summary: every output is summarised once
\* ------------------------------------------------------------------------
MaxLines == 4

ReaderHeader == <<"AWS SECURITY CONTROLS ANALYSIS">>

ReadLineChoices ==
    { Block("title", ReaderHeader),
      Block("h2", <<"Summary">>),
      Block("h2", <<"Document", SP, "Source">>),
      Block("h3", <<"Best", SP, "Practices">>),
      Block("prose", <<"Encrypt", SP, "buckets">>),
      Block("prose", <<>>),
      Block("bullet", <<"Block", SP, "public", SP, "access">>),
      Block("dash", <<"Enable", SP, "logging">>) }

ReadDocuments == SeqsUpTo(ReadLineChoices, MaxLines)

\* header in message.content
HasHeaderText(content, header) ==
    \E i \in DOMAIN content : LiteralAt(content, i, header, FALSE)

\* results["security_controls"]: the Read stage's contribution if it bears
\* the stage's header, else ""
security_controls_of(content) ==
    IF HasHeaderText(content, ReaderHeader) THEN content ELSE <<>>

InitSummary ==
    /\ hashseed = 0
    /\ table = Unused
    /\ csv_content = Unused
    /\ heap = <<>>
    /\ calls = <<>>
    /\ document \in ReadDocuments
    /\ doc_text = WriteDocument(document)
    /\ extracted = Unused
    /\ summary = Unused
    /\ request = Unused
    /\ messages = <<>>
    /\ results = NotReturned
    /\ files = {}
    /\ aws_services = <<>>
    /\ runs = <<>>
    /\ all_controls = <<>>
    /\ master_csv_content = Unused
    /\ response = NoResponse
    /\ reruns = <<>>
    /\ service_data = <<>>
    /\ mcp_client = None
    /\ tool_results = <<>>
    /\ analyses = <<>>

\* f"Security analysis completed for {aws_service}. See full results for
\* details."
FallbackSummary == <<"Security analysis completed. See full results for details.">>

get_service_security_summary(controls) ==
    IF controls # <<>> /\ summary_match(controls) # None
    THEN strip(summary_match(controls))
    ELSE FallbackSummary

Summarise ==
    /\ summary = Unused
    /\ summary' = get_service_security_summary(security_controls_of(doc_text))
    /\ UNCHANGED <<validatorVars, document, doc_text, extracted, coordinatorVars,
                   batchVars,
                   apiVars>>

NextSummary == Summarise

SpecSummary == InitSummary /\ [][NextSummary]_vars

\* ------------------------------------------------------------------------
\* What the Read stage's output says, independently of the pattern
\* ------------------------------------------------------------------------
IsSummaryHeading(b) == b = Block("h2", <<"Summary">>)
IsTitle(b) == b.kind = "title"

\* a heading of the level of '## Summary' or above
EndsSection(b) == b.kind \in {"title", "h2"}

\* the lines of the section that starts before line i
RECURSIVE SectionBody(_, _)
SectionBody(doc, i) ==
    IF i > Len(doc) \/ EndsSection(doc[i]) THEN <<>>
    ELSE WriteBlock(doc[i]) \o SectionBody(doc, i + 1)

\* the body of the '## Summary' section of an attributed Read stage output;
\* Missing when there is no such output or no such heading
SummarySection(doc) ==
    IF FirstOf(doc, IsTitle) = 0 \/ FirstOf(doc, IsSummaryHeading) = 0
    THEN Missing
    ELSE Trimmed(SectionBody(doc, FirstOf(doc, IsSummaryHeading) + 1))

\* C12: the summary is the whole body of the '## Summary' section, up to
\* the next heading of level one or two or the end of the text - lines
\* under a '###' heading and lines starting with '*' included - and the
\* extraction yields nothing (the stock sentence is returned) when the
\* heading is absent; nothing is asked of a section without a body.
C12_SummaryIsWholeSection ==
    summary # Unused =>
        CASE SummarySection(document) = Missing -> summary = FallbackSummary
          [] SummarySection(document) = <<>> -> TRUE
          [] OTHER -> summary = SummarySection(document)

\* ========================================================================
\* Part 3: the Pipeline Coordinator: AWSDocumentationAnalyzer
\* .analyze_aws_service_security and .analyze_and_save_all, with the
\* round-robin team of the five stage agents
\* ========================================================================
Participants ==
    <<"DocumentSearchAgent", "URLSelectorAgent", "DocumentReaderAgent",
      "SecurityControlsProcessor", "CSVValidator">>

\* MaxMessageTermination(10): the conversation stops once the transcript,
\* the task message included, holds this many messages
MaxMessages == 10

\* the section header the scan looks for in a stage's contribution
StageHeader(source) ==
    CASE source = "DocumentSearchAgent" -> <<"DOCUMENTATION SEARCH RESULTS">>
      [] source = "URLSelectorAgent" -> <<"URL SELECTION ANALYSIS">>
      [] source = "DocumentReaderAgent" -> ReaderHeader
      [] source = "SecurityControlsProcessor" -> <<"STRUCTURED SECURITY CONTROLS">>
      [] source = "CSVValidator" -> <<"CSV VALIDATION REPORT">>
      [] OTHER -> None

Message(source, content) == [source |-> source, content |-> content]

\* f"{aws_service} security controls best practices compliance"
default_search_query(aws_service) ==
    <<aws_service, SP, "security controls best practices compliance">>

effective_search_query(req) ==
    IF req.search_query \in {None, <<>>}
    THEN default_search_query(req.aws_service)
    ELSE req.search_query

\* TextMessage(content=initial_task, source="user")
task_message(req) ==
    Message("user",
            <<"Team Task: Analyze AWS", SP, req.aws_service, LF,
              "DocumentSearchAgent: Start by searching for", SP>>
                \o effective_search_query(req))

\* the participant whose turn it is: round robin from the first one
NextSpeaker(msgs) == Participants[((Len(msgs) - 1) % Len(Participants)) + 1]

\* the round the next turn belongs to
Round(msgs) == ((Len(msgs) - 1) \div Len(Participants)) + 1

Attribute_any_header(outputs, message) ==
    IF /\ message.source \in DOMAIN outputs
       /\ \E p \in DOMAIN outputs : HasHeaderText(message.content, StageHeader(p))
    THEN [outputs EXCEPT ![message.source] = message.content]
    ELSE outputs

\* the loop over result.messages: a contribution is stored under its stage
\* when the speaker is the stage's agent and the content holds its header
Attribute(outputs, message) ==
    IF /\ message.source \in DOMAIN outputs
       /\ HasHeaderText(message.content, StageHeader(message.source))
    THEN [outputs EXCEPT ![message.source] = message.content]
    ELSE outputs

RECURSIVE ScanMessages_last_to_first(_, _)
ScanMessages_last_to_first(msgs, outputs) ==
    IF msgs = <<>> THEN outputs
    ELSE ScanMessages_last_to_first(SubSeq(msgs, 1, Len(msgs) - 1),
                                    Attribute(outputs, msgs[Len(msgs)]))

RECURSIVE ScanMessages(_, _)
ScanMessages(msgs, outputs) ==
    IF msgs = <<>> THEN outputs
    ELSE ScanMessages(Tail(msgs), Attribute(outputs, Head(msgs)))

\* r'\*\*URL:\*\*\s*(.+)'
UrlPattern ==
    Pattern(<<Lit(<<STAR, STAR, "URL", COLON, STAR, STAR>>),
              ClassStar(Whitespace)>>, "line", FALSE)

FinalValidatedCsvPattern_unanchored ==
    Pattern(<<Lit(Fence \o <<"csv">>), ClassStar(Whitespace)>>, "fence", FALSE)

\* r'## Final Validated CSV\s*```csv\s*(.+?)```' under re.DOTALL
FinalValidatedCsvPattern ==
    Pattern(<<Lit(<<HASH, HASH, SP, "Final", SP, "Validated", SP, "CSV">>),
              ClassStar(Whitespace),
              Lit(Fence \o <<"csv">>), ClassStar(Whitespace)>>, "fence", FALSE)

\* group(1).strip() of the pattern in a stage output; "" when the output is
\* empty or the pattern is not found
FieldOf(pattern, output) ==
    IF output # <<>> /\ search(pattern, output) # None
    THEN strip(search(pattern, output))
    ELSE <<>>

analyze_aws_service_security_strict(req, msgs) ==
    IF \E p \in Range(Participants) :
          ScanMessages(msgs, [q \in Range(Participants) |-> <<>>])[p] = <<>>
    THEN Raised
    ELSE [search_results |-> <<>>]

\* the dict analyze_aws_service_security returns for a transcript
analyze_aws_service_security(req, msgs) ==
    LET out == ScanMessages(msgs, [p \in Range(Participants) |-> <<>>])
    IN  [search_results |-> out["DocumentSearchAgent"],
         selected_url_analysis |-> out["URLSelectorAgent"],
         extracted_url |-> FieldOf(UrlPattern, out["URLSelectorAgent"]),
         security_controls |-> out["DocumentReaderAgent"],
         processed_controls |-> out["SecurityControlsProcessor"],
         validation_report |-> out["CSVValidator"],
         final_csv |-> FieldOf(FinalValidatedCsvPattern, out["CSVValidator"]),
         aws_service |-> req.aws_service,
         search_query |-> effective_search_query(req),
         full_conversation |-> [i \in DOMAIN msgs |-> msgs[i].content]]

\* ------------------------------------------------------------------------
\* save_analysis_results, save_csv_results and analyze_and_save_all
\* ------------------------------------------------------------------------
OutputDir == "output"

\* what f.write(text) leaves in a file
TextFile(text) == [text |-> text]

WriteFile(fs, path, content) ==
    {f \in fs : f.path # path} \cup {[path |-> path, content |-> content]}

\* s.count('\n')
CountOf(s, c) == Cardinality({i \in DOMAIN s : s[i] = c})

\* len(final_csv.split('\n')) - 1 if final_csv else 0
csv_records_generated(final_csv) ==
    IF final_csv = <<>> THEN 0 ELSE (CountOf(final_csv, LF) + 1) - 1

markdown_path(res) ==
    <<OutputDir, "/aws_", lower(res.aws_service), "_security_analysis.md">>

\* the report of save_analysis_results, by the values written into it
markdown_report(res) ==
    [aws_service |-> res.aws_service,
     search_query |-> res.search_query,
     extracted_url |-> res.extracted_url,
     csv_records_generated |-> csv_records_generated(res.final_csv),
     search_results |-> res.search_results,
     selected_url_analysis |-> res.selected_url_analysis,
     security_controls |-> res.security_controls,
     processed_controls |-> res.processed_controls,
     validation_report |-> res.validation_report,
     final_csv |-> res.final_csv,
     full_conversation |-> res.full_conversation]

csv_path(res) ==
    <<OutputDir, "/aws_", lower(res.aws_service), "_security_controls.csv">>

CsvHeaderLine ==
    <<"controlId", COMMA, "controlName", COMMA, "severity", COMMA, "policies",
      COMMA, "awsConfig", COMMA, "implementation", COMMA,
      "relatedRequirements">>

\* the fallback table of save_csv_results
fallback_csv(res) ==
    CsvHeaderLine \o <<LF>>
        \o <<"AWS-", upper(res.aws_service), "-001", COMMA,
             "No security controls extracted", COMMA, "Medium", COMMA,
             "Not specified", COMMA, "Not specified", COMMA,
             "Review documentation manually", COMMA, "Check", SP>>
        \o res.extracted_url

saved_csv_as_extracted(res) == res.final_csv

\* the content save_csv_results writes
saved_csv(res) ==
    IF res.final_csv = <<>> THEN fallback_csv(res) ELSE res.final_csv

analyze_and_save_all_checks_processor(req, msgs) ==
    LET res == analyze_aws_service_security(req, msgs)
        saved == [markdown_file |-> markdown_path(res),
                  csv_file |-> csv_path(res)] @@ res
    IN  IF res.final_csv # <<>>
        THEN [csv_validation |->
                  validate_csv_format(extract_csv_from_text(res.processed_controls))]
                 @@ saved
        ELSE saved

\* the dict analyze_and_save_all returns: the analysis, the two paths, and
\* the validation of the final CSV when there is one
analyze_and_save_all(req, msgs) ==
    LET res == analyze_aws_service_security(req, msgs)
        saved == [markdown_file |-> markdown_path(res),
                  csv_file |-> csv_path(res)] @@ res
    IN  IF res.final_csv # <<>>
        THEN [csv_validation |-> validate_csv_format(res.final_csv)] @@ saved
        ELSE saved

\* ------------------------------------------------------------------------
\* What the reasoning service may answer in a stage's turn: a contribution
\* in the layout the stage instructions ask for, or one that breaks it
\* ------------------------------------------------------------------------
RoundWord(round) == IF round = 1 THEN "first" ELSE "revised"

RoundNote(round) == Block("prose", <<RoundWord(round), SP, "answer">>)

Title(source) == Block("title", StageHeader(source))

\* the Select stage names its URL in the first round only
GoodContribution(source, round) ==
    CASE source = "DocumentSearchAgent" ->
            WriteDocument(<<Title(source), RoundNote(round)>>)
      [] source = "URLSelectorAgent" ->
            WriteDocument(<<Title(source), Block("h2", <<"Selected", SP, "URL">>)>>
                \o (IF round = 1
                    THEN <<Block("url", <<"https://docs.aws.amazon.com/s3">>)>>
                    ELSE <<>>)
                \o <<RoundNote(round)>>)
      [] source = "DocumentReaderAgent" ->
            WriteDocument(<<Title(source), Block("h2", <<"Summary">>),
                            RoundNote(round)>>)
      [] source = "SecurityControlsProcessor" ->
            WriteDocument(<<Title(source), Block("h2", <<"CSV", SP, "Output">>),
                            Block("fence_csv",
                                  CsvHeaderLine \o <<LF, RoundWord(round)>>)>>)

\* a contribution without the stage's header; the Search stage's bears the
\* header of another stage
BadContribution(source, round) ==
    IF source = "DocumentSearchAgent"
    THEN WriteDocument(<<Title("URLSelectorAgent"), RoundNote(round)>>)
    ELSE WriteDocument(<<RoundNote(round)>>)

Contributions(source, round) ==
    {GoodContribution(source, round), BadContribution(source, round)}

\* the final tables of the Validate stage
RunRowChoices ==
    { Row(<<"A">>, <<"n">>, <<"High">>, NotSpecified, 0),
      Row(<<"B">>, <<"m">>, <<"Low">>, <<"x", COMMA, QUOTE, "y">>, 0) }

\* a table written with CRLF line ends, blank lines and a final line end;
\* a quoted field of its second row holds a line break
WindowsTable ==
    [cols |-> RequiredColumns,
     rows |-> << Row(<<"A">>, <<"n">>, <<"High">>, NotSpecified, 0),
                 Row(<<"C">>, <<"m">>, <<"Medium">>, <<"x", LF, "y">>, 0) >>,
     style |-> Style(TRUE, <<CR, LF>>, TRUE, TRUE)]

\* a table of one row written with CRLF line ends, blank lines and a final
\* line end
CrlfTable ==
    [cols |-> RequiredColumns,
     rows |-> <<Row(<<"A">>, <<"n">>, <<"High">>, NotSpecified, 0)>>,
     style |-> Style(TRUE, <<CR, LF>>, TRUE, TRUE)]

\* a table without the column relatedRequirements
ShortTable ==
    [cols |-> SubSeq(RequiredColumns, 1, Len(RequiredColumns) - 1),
     rows |-> <<Row(<<"A">>, <<"n">>, <<"High">>, NotSpecified, 0)>>,
     style |-> Style(TRUE, <<LF>>, FALSE, FALSE)]

\* the final tables of a run: up to MaxRows rows, no two neighbours alike
RunTables ==
    { [cols |-> RequiredColumns, rows |-> rs,
       style |-> Style(TRUE, <<LF>>, FALSE, FALSE)] :
          rs \in {r \in SeqsUpTo(RunRowChoices, MaxRows) :
                      \A k \in 1..(Len(r) - 1) : r[k] # r[k + 1]} }
    \cup {WindowsTable, ShortTable}

\* the Validate stage's report on a final table: with an empty 'Corrected
\* CSV' block and the final table, or the same without the report's header
ValidationReport(t, headed) ==
    WriteDocument((IF headed THEN <<Title("CSVValidator")>> ELSE <<>>)
        \o <<Block("h2", <<"Corrected", SP, "CSV">>), Block("fence_csv", <<>>),
             Block("final", WriteTable(t))>>)

\* a report that failed the table and gives no final one
FailedReport ==
    WriteDocument(<<Title("CSVValidator"),
                    Block("prose", <<"Overall", SP, "Status", COLON, SP, "FAILED">>)>>)

\* ------------------------------------------------------------------------
\* The coordinator's specification: one analysis, turn by turn
\* ------------------------------------------------------------------------
RequestChoices ==
    { [aws_service |-> "S3", search_query |-> None],
      [aws_service |-> "Lambda",
       search_query |-> <<"AWS Lambda security best practices">>] }

InitRun ==
    /\ hashseed = 0
    /\ table = Unused
    /\ csv_content = Unused
    /\ heap = <<>>
    /\ calls = <<>>
    /\ document = Unused
    /\ doc_text = Unused
    /\ extracted = Unused
    /\ summary = Unused
    /\ request \in RequestChoices
    /\ messages = <<task_message(request)>>
    /\ results = NotReturned
    /\ files = {}
    /\ aws_services = <<>>
    /\ runs = <<>>
    /\ all_controls = <<>>
    /\ master_csv_content = Unused
    /\ response = NoResponse
    /\ reruns = <<>>
    /\ service_data = <<>>
    /\ mcp_client = None
    /\ tool_results = <<>>
    /\ analyses = <<>>

Running == messages # <<>> /\ results = NotReturned

\* the termination condition has stopped the conversation
Stopped == Running /\ Len(messages) >= MaxMessages

\* the turn of one of the first four stages
Speak ==
    /\ Running /\ ~Stopped
    /\ NextSpeaker(messages) # "CSVValidator"
    /\ \E c \in Contributions(NextSpeaker(messages), Round(messages)) :
          messages' = Append(messages, Message(NextSpeaker(messages), c))
    /\ UNCHANGED <<validatorVars, extractorVars, request, results, files,
                   batchVars,
                   apiVars>>

\* the turn of the Validate stage, with a report on a final table
SpeakValidator ==
    /\ Running /\ ~Stopped
    /\ NextSpeaker(messages) = "CSVValidator"
    /\ \E t \in RunTables :
          /\ table' = t
          /\ csv_content' = WriteTable(t)
          /\ messages' = Append(messages,
                                Message("CSVValidator", ValidationReport(t, TRUE)))
    /\ UNCHANGED <<hashseed, heap, calls, extractorVars, request, results, files,
                   batchVars,
                   apiVars>>

\* the turn of the Validate stage, with a contribution that breaks the
\* layout: no final table, or no report header
SpeakValidatorFailed ==
    /\ Running /\ ~Stopped
    /\ NextSpeaker(messages) = "CSVValidator"
    /\ \/ /\ table' = Unused
          /\ csv_content' = Unused
          /\ messages' = Append(messages, Message("CSVValidator", FailedReport))
       \/ /\ table' = WindowsTable
          /\ csv_content' = WriteTable(WindowsTable)
          /\ messages' = Append(messages,
                                Message("CSVValidator",
                                        ValidationReport(WindowsTable, FALSE)))
    /\ UNCHANGED <<hashseed, heap, calls, extractorVars, request, results, files,
                   batchVars,
                   apiVars>>

\* the reasoning service fails in a turn: team.run raises, and so does the
\* analysis
ServiceUnavailable ==
    /\ Running /\ ~Stopped
    /\ results' = Raised
    /\ messages' = <<>>
    /\ table' = Unused
    /\ csv_content' = Unused
    /\ UNCHANGED <<hashseed, heap, calls, extractorVars, request, files,
                   batchVars,
                   apiVars>>

\* analyze_aws_service_security, from the end of the conversation on
Analyze ==
    /\ Stopped
    /\ results' = analyze_aws_service_security(request, messages)
    /\ UNCHANGED <<validatorVars, extractorVars, request, messages, files,
                   batchVars,
                   apiVars>>

\* analyze_and_save_all, from the end of the conversation on
AnalyzeAndSaveAll ==
    /\ Stopped
    /\ results' = analyze_and_save_all(request, messages)
    /\ files' = WriteFile(WriteFile(files, results'.markdown_file,
                                    markdown_report(results')),
                          results'.csv_file, TextFile(saved_csv(results')))
    /\ UNCHANGED <<validatorVars, extractorVars, request, messages,
                   batchVars,
                   apiVars>>

\* max(0, len(csv_lines) - 1) over final_csv.strip().split('\n'); 0 without
\* a final table
csv_records_count(final_csv) ==
    IF final_csv = <<>> THEN 0
    ELSE LET csv_lines == split(strip(final_csv), LF)
         IN  IF Len(csv_lines) - 1 > 0 THEN Len(csv_lines) - 1 ELSE 0

\* the AnalysisResponse of analyze_service, without its identifier and its
\* timestamp
AnalysisResponse(res) ==
    LET validated == "csv_validation" \in DOMAIN res
    IN  [status |-> "success",
         service_name |-> res.aws_service,
         csv_records_count |-> csv_records_count(res.final_csv),
         validation_status |->
             IF validated /\ res.csv_validation.is_valid
             THEN "PASSED" ELSE "FAILED",
         search_query |-> res.search_query,
         source_url |-> res.extracted_url,
         file_paths |-> [csv_file |-> res.csv_file,
                         markdown_file |-> res.markdown_file],
         csv_data |-> res.final_csv,
         validation_issues |->
             IF validated THEN res.csv_validation.issues ELSE <<>>]

\* HTTPException(status_code=...)
HTTPException(status_code) == [status |-> "error", status_code |-> status_code]

NextRun ==
    \/ Speak
    \/ SpeakValidator
    \/ SpeakValidatorFailed
    \/ ServiceUnavailable
    \/ Analyze
    \/ AnalyzeAndSaveAll

SpecRun == InitRun /\ [][NextRun]_vars

\* ------------------------------------------------------------------------
\* What the transcript says, independently of the scan
\* ------------------------------------------------------------------------
\* the analysis has returned its dict
Completed == results \notin {NotReturned, Raised}

\* the turns in which stage p spoke
TurnsOf(p) == {i \in DOMAIN messages : messages[i].source = p}

\* the round of turn i of the transcript, the task message being turn 1
RoundOf(i) == ((i - 2) \div Len(Participants)) + 1

\* the contribution of turn i keeps to the layout of its stage p, header
\* included; the Validate stage's is a report on table, or the report that
\* fails it
Headed(p, i) ==
    IF p = "CSVValidator"
    THEN \/ messages[i].content = FailedReport
         \/ /\ csv_content # Unused
            /\ messages[i].content = ValidationReport(table, TRUE)
    ELSE messages[i].content = GoodContribution(p, RoundOf(i))

\* the turns in which stage p spoke and kept to its layout
HeadedTurnsOf(p) == {i \in TurnsOf(p) : Headed(p, i)}

\* the field of the returned dict that holds the output of stage p
StageOutput(p) ==
    CASE p = "DocumentSearchAgent" -> results.search_results
      [] p = "URLSelectorAgent" -> results.selected_url_analysis
      [] p = "DocumentReaderAgent" -> results.security_controls
      [] p = "SecurityControlsProcessor" -> results.processed_controls
      [] p = "CSVValidator" -> results.validation_report

\* C13 (as claimed): the stages speak in the fixed round-robin order, one
\* contribution per turn, and when the conversation has stopped on the
\* message budget every one of the five stages has contributed exactly
\* twice.
C13_TwoContributionsEach ==
    /\ \A i \in DOMAIN messages :
          i > 1 => messages[i].source
                       = Participants[((i - 2) % Len(Participants)) + 1]
    /\ (Stopped \/ Completed) =>
          \A p \in Range(Participants) : Cardinality(TurnsOf(p)) = 2

\* C14: in the returned dict the output of a stage is one of the
\* contributions made under the stage's speaker label that hold the stage's
\* header; when there is none it is the empty string, and the run returns
\* all the same, with the outputs of the other stages as they were
\* contributed.
C14_AttributedByLabelAndHeader ==
    Completed =>
        \A p \in Range(Participants) :
            IF HeadedTurnsOf(p) = {} THEN StageOutput(p) = <<>>
            ELSE \E i \in HeadedTurnsOf(p) : StageOutput(p) = messages[i].content

\* the Search stage spoke under another stage's header, the Select stage
\* without a header; the Read stage's output is there
C14_Witness ==
    /\ Completed
    /\ TurnsOf("DocumentSearchAgent") # {}
    /\ HeadedTurnsOf("DocumentSearchAgent") = {}
    /\ \A i \in TurnsOf("DocumentSearchAgent") :
          HasHeaderText(messages[i].content, StageHeader("URLSelectorAgent"))
    /\ HeadedTurnsOf("URLSelectorAgent") = {}
    /\ results.selected_url_analysis = <<>>
    /\ results.security_controls # <<>>

\* the run is one of analyze_and_save_all
SavedAll == Completed /\ "csv_file" \in DOMAIN results

\* C15 (as claimed): the dict a completed analyze_and_save_all run returns
\* carries the extracted table and the validation report of that table,
\* also when the extracted table is empty.
C15_RunCarriesTableAndReport ==
    SavedAll =>
        /\ "final_csv" \in DOMAIN results
        /\ "csv_validation" \in DOMAIN results

ResultKeys ==
    {"search_results", "selected_url_analysis", "extracted_url",
     "security_controls", "processed_controls", "validation_report",
     "final_csv", "aws_service", "search_query", "full_conversation"}

\* C16: a run whose conversation came to its end returns, whatever the
\* stages contributed: every key is there; a stage without a contribution
\* that holds its header has an empty field, and so have the fields derived
\* from it (extracted_url from the Select stage, final_csv from the Validate
\* stage); the field of every other stage is its contribution, unchanged.
C16_PartialResultsPreserved ==
    /\ results = Raised => messages = <<>>
    /\ Completed =>
          /\ ResultKeys \subseteq DOMAIN results
          /\ \A p \in Range(Participants) :
                IF HeadedTurnsOf(p) = {}
                THEN /\ StageOutput(p) = <<>>
                     /\ p = "URLSelectorAgent" => results.extracted_url = <<>>
                     /\ p = "CSVValidator" => results.final_csv = <<>>
                ELSE StageOutput(p) \in {messages[i].content : i \in HeadedTurnsOf(p)}

\* the Validate and the Select stage gave nothing identifiable, the Search
\* and the Process stage did
C16_Witness ==
    /\ Completed
    /\ HeadedTurnsOf("CSVValidator") = {}
    /\ HeadedTurnsOf("URLSelectorAgent") = {}
    /\ results.final_csv = <<>>
    /\ results.extracted_url = <<>>
    /\ results.search_results # <<>>
    /\ results.processed_controls # <<>>

\* every stage before Validate kept to its layout in its last turn, and the
\* Validate stage's last contribution is the headed report on table
ValidRun ==
    /\ \A p \in Range(Participants) \ {"CSVValidator"} :
          /\ TurnsOf(p) # {}
          /\ \A i \in TurnsOf(p) : i \in HeadedTurnsOf(p)
    /\ TurnsOf("CSVValidator") # {}
    /\ csv_content # Unused
    /\ \A i \in TurnsOf("CSVValidator") :
          (\A j \in TurnsOf("CSVValidator") : j <= i) =>
              messages[i].content = ValidationReport(table, TRUE)

\* C17: when the stages before Validate keep to their layout and the
\* Validate stage's report ends with a fenced final table that has the 7
\* required columns and n valid rows, analyze_and_save_all returns that
\* table as final_csv, with a validation report of row_count = n and
\* is_valid = true.
C17_ValidRunYieldsValidTable ==
    (SavedAll /\ ValidRun /\ WellFormedTrimmed) =>
        /\ results.final_csv = Trimmed(csv_content)
        /\ "csv_validation" \in DOMAIN results
        /\ results.csv_validation.is_valid
        /\ results.csv_validation.issues = <<>>
        /\ results.csv_validation.row_count = NumRows

C17_Witness ==
    /\ SavedAll
    /\ ValidRun
    /\ WellFormedTrimmed
    /\ NumRows = 2
    /\ table.style.trailing
    /\ results.csv_validation.row_count = 2
    /\ results.csv_validation.is_valid

\* ------------------------------------------------------------------------
\* SecurityControlsExtractor (aws_doc_analyzer_example.py): the batch over
\* a list of subjects and its master CSV
\* ------------------------------------------------------------------------
MaxServices == 2

ServiceChoices == {"S3", "Lambda"}

ServiceLists == SeqsUpTo(ServiceChoices, MaxServices)

UnixStyle == Style(TRUE, <<LF>>, FALSE, FALSE)

\* the final tables a subject's Validate stage may write
BatchTables ==
    { [cols |-> RequiredColumns, rows |-> <<>>, style |-> UnixStyle],
      [cols |-> RequiredColumns,
       rows |-> <<Row(<<"A">>, <<"n">>, <<"High">>, NotSpecified, 0)>>,
       style |-> UnixStyle],
      [cols |-> RequiredColumns,
       rows |-> <<Row(<<"B">>, <<"m">>, <<"Low">>, <<"x", COMMA, QUOTE, "y">>, 0)>>,
       style |-> UnixStyle],
      [cols |-> RequiredColumns,
       rows |-> <<Row(<<"A">>, <<"n">>, <<"High">>, NotSpecified, 0),
                  Row(<<"A">>, <<"n">>, <<"High">>, NotSpecified, 0)>>,
       style |-> UnixStyle],
      WindowsTable }

NoTable == [cols |-> <<>>, rows |-> <<>>, style |-> UnixStyle]

\* what a run of a subject may come to: a report on a final table, a
\* report without a final table, or an exception
ReturningRuns ==
    {[outcome |-> "table", table |-> t] : t \in BatchTables}
        \cup {[outcome |-> "failed", table |-> NoTable]}

RaisingRun == [outcome |-> "raised", table |-> NoTable]

ReportOf(run) ==
    IF run.outcome = "table" THEN ValidationReport(run.table, TRUE)
    ELSE FailedReport

\* the conversation of a run in which the stages before Validate keep to
\* their layout and the Validate stage contributes report
RECURSIVE Converse(_, _)
Converse(msgs, report) ==
    IF Len(msgs) >= MaxMessages THEN msgs
    ELSE LET speaker == NextSpeaker(msgs)
             content == IF speaker = "CSVValidator" THEN report
                        ELSE GoodContribution(speaker, Round(msgs))
         IN  Converse(Append(msgs, Message(speaker, content)), report)

\* self.doc_analyzer.analyze_aws_service_security(service)
analysis_of(service, run) ==
    LET req == [aws_service |-> service, search_query |-> None]
    IN  analyze_aws_service_security(req,
                                     Converse(<<task_message(req)>>, ReportOf(run)))

\* str(e) of the exception of a run
ErrorText == <<"Service unavailable">>

\* results[service] of a run that returned
service_results(analysis) ==
    LET stored == [security_controls |-> analysis.security_controls,
                   processed_controls |-> analysis.processed_controls,
                   validation_report |-> analysis.validation_report,
                   final_csv |-> analysis.final_csv,
                   source_url |-> analysis.extracted_url,
                   search_query |-> analysis.search_query]
    IN  IF analysis.final_csv # <<>>
        THEN [csv_validation |-> validate_csv_format(analysis.final_csv)]
                 @@ stored
        ELSE stored

Put_keeps_first(d, service, data) ==
    IF \E i \in DOMAIN d : d[i].service = service THEN d
    ELSE Append(d, [service |-> service, data |-> data])

\* results[service] = data on a dict kept in insertion order
Put(d, service, data) ==
    IF \E i \in DOMAIN d : d[i].service = service
    THEN [i \in DOMAIN d |->
             IF d[i].service = service
             THEN [service |-> service, data |-> data] ELSE d[i]]
    ELSE Append(d, [service |-> service, data |-> data])

\* the loop over csv_lines[1:]: f"{line},{service}\n" for every line that
\* is not blank
RECURSIVE tagged_lines(_, _)
tagged_lines(lines, service) ==
    IF lines = <<>> THEN <<>>
    ELSE (IF strip(Head(lines)) # <<>>
          THEN Head(lines) \o <<COMMA, service, LF>> ELSE <<>>)
             \o tagged_lines(Tail(lines), service)

\* what the entry of a subject adds to the master CSV
master_lines(entry) ==
    IF "error" \in DOMAIN entry.data THEN <<>>
    ELSE IF entry.data.final_csv = <<>> THEN <<>>
    ELSE LET csv_lines == split(strip(entry.data.final_csv), LF)
         IN  IF Len(csv_lines) > 1
             THEN tagged_lines(Tail(csv_lines), entry.service)
             ELSE <<>>

MasterHeaderLine == CsvHeaderLine \o <<COMMA, "awsService", LF>>

RECURSIVE master_rows(_)
master_rows(controls) ==
    IF controls = <<>> THEN <<>>
    ELSE master_lines(Head(controls)) \o master_rows(Tail(controls))

master_csv(controls) == MasterHeaderLine \o master_rows(controls)

\* the section of a subject in the compliance report, by the values
\* written into it
report_section(entry) ==
    LET data == entry.data
    IN  IF "error" \in DOMAIN data
        THEN [service |-> entry.service, error |-> data.error]
        ELSE IF "csv_validation" \in DOMAIN data
        THEN [service |-> entry.service, source |-> data.source_url,
              passed |-> data.csv_validation.is_valid,
              issues |-> IF data.csv_validation.is_valid THEN <<>>
                         ELSE data.csv_validation.issues,
              csv_records |-> data.csv_validation.row_count,
              processed_controls |-> data.processed_controls,
              security_controls |-> data.security_controls]
        ELSE [service |-> entry.service, source |-> data.source_url,
              processed_controls |-> data.processed_controls,
              security_controls |-> data.security_controls]

\* the compliance report, by the values written into it
compliance_report(services, controls) ==
    [services |-> services,
     total_services |-> Len(services),
     successful_analyses |->
         Cardinality({i \in DOMAIN controls :
                         "error" \notin DOMAIN controls[i].data}),
     csv_generated |->
         Cardinality({i \in DOMAIN controls :
                         /\ "error" \notin DOMAIN controls[i].data
                         /\ controls[i].data.final_csv # <<>>}),
     sections |-> [i \in DOMAIN controls |-> report_section(controls[i])],
     master_csv |-> master_csv(controls)]

output_file == <<"compliance_report.md">>

\* output_file.replace('.md', '_master.csv')
csv_output_file == <<"compliance_report_master.csv">>

\* ------------------------------------------------------------------------
\* The batch's specification: generate_compliance_report, subject by subject
\* ------------------------------------------------------------------------
InitBatch ==
    /\ hashseed = 0
    /\ table = Unused
    /\ csv_content = Unused
    /\ heap = <<>>
    /\ calls = <<>>
    /\ document = Unused
    /\ doc_text = Unused
    /\ extracted = Unused
    /\ summary = Unused
    /\ request = Unused
    /\ messages = <<>>
    /\ results = NotReturned
    /\ files = {}
    /\ aws_services \in ServiceLists
    /\ runs = <<>>
    /\ all_controls = <<>>
    /\ master_csv_content = Unused
    /\ response = NoResponse
    /\ reruns = <<>>
    /\ service_data = <<>>
    /\ mcp_client = None
    /\ tool_results = <<>>
    /\ analyses = <<>>

Extracting ==
    /\ request = Unused
    /\ master_csv_content = Unused
    /\ Len(runs) < Len(aws_services)

\* one pass of the loop of extract_security_controls_for_services in which
\* the run of the subject returns
ExtractService ==
    /\ Extracting
    /\ \E run \in ReturningRuns :
          LET service == aws_services[Len(runs) + 1]
          IN  /\ runs' = Append(runs, run)
              /\ all_controls' =
                     Put(all_controls, service,
                         service_results(analysis_of(service, run)))
    /\ UNCHANGED <<validatorVars, extractorVars, coordinatorVars,
                   aws_services, master_csv_content,
                   apiVars>>

\* one pass of the loop in which the run of the subject raises
ExtractServiceFails ==
    /\ Extracting
    /\ runs' = Append(runs, RaisingRun)
    /\ all_controls' = Put(all_controls, aws_services[Len(runs) + 1],
                           [error |-> ErrorText])
    /\ UNCHANGED <<validatorVars, extractorVars, coordinatorVars,
                   aws_services, master_csv_content,
                   apiVars>>

\* generate_compliance_report, once the dict of the batch is there
GenerateComplianceReport ==
    /\ request = Unused
    /\ master_csv_content = Unused
    /\ Len(runs) = Len(aws_services)
    /\ master_csv_content' = master_csv(all_controls)
    /\ files' = WriteFile(WriteFile(files, output_file,
                                    compliance_report(aws_services, all_controls)),
                          csv_output_file, TextFile(master_csv_content'))
    /\ UNCHANGED <<validatorVars, extractorVars, request, messages, results,
                   aws_services, runs, all_controls,
                   apiVars>>

NextBatch ==
    \/ ExtractService
    \/ ExtractServiceFails
    \/ GenerateComplianceReport

SpecBatch == InitBatch /\ [][NextBatch]_vars

\* ------------------------------------------------------------------------
\* What the batch should come to, from the runs of its subjects
\* ------------------------------------------------------------------------
\* the master CSV has been written
Done == master_csv_content # Unused

\* the subjects run so far
SubjectsRun == {aws_services[k] : k \in DOMAIN runs}

\* the last run of subject s so far
LastRunOf(s) == runs[MaxOf({k \in DOMAIN runs : aws_services[k] = s})]

Recorded(s) == \E i \in DOMAIN all_controls : all_controls[i].service = s

\* the entry of subject s in the dict of the batch
EntryOf(s) ==
    all_controls[CHOOSE i \in DOMAIN all_controls :
                     all_controls[i].service = s].data

\* the lines of a text that ends with a line end
LinesOf(text) ==
    LET pieces == split(text, LF)
    IN  SubSeq(pieces, 1, Len(pieces) - 1)

\* the lines of the master CSV below its header line
MasterDataLines == Tail(LinesOf(master_csv_content))

\* the line ends with the subject s as its last field
TaggedWith(line, s) ==
    /\ Len(line) >= 2
    /\ line[Len(line)] = s
    /\ line[Len(line) - 1] = COMMA

\* the number of master lines with the tag of subject s
TaggedCount(s) ==
    Cardinality({i \in DOMAIN MasterDataLines : TaggedWith(MasterDataLines[i], s)})

\* the number of lines the rows of table t are written on
RowLinesOf(t) ==
    LET lines == Tail(split(Trimmed(WriteTable(t)), LF))
    IN  Cardinality({i \in DOMAIN lines : ~Blank(lines[i])})

\* C18 (as claimed): a subject whose run throws is recorded with an error
\* marker and has no row in the master CSV; the batch goes on to the end of
\* the list.
C18_ThrowingSubjectIsMarked ==
    /\ \A k \in DOMAIN runs :
          runs[k].outcome = "raised" =>
              /\ Recorded(aws_services[k])
              /\ "error" \in DOMAIN EntryOf(aws_services[k])
    /\ Done =>
          /\ Len(runs) = Len(aws_services)
          /\ \A k \in DOMAIN runs :
                runs[k].outcome = "raised" => TaggedCount(aws_services[k]) = 0

\* C18 (amended): the batch keeps one record per subject, that of the
\* subject's last run in the list.  A subject whose last run threw is
\* recorded with an error marker, and with nothing else, and has no row in
\* the master CSV; the batch goes on to the end of the list, and the master
\* CSV holds the lines of the final tables of the other subjects only.
C18_LastThrowingRunIsMarked ==
    /\ \A s \in SubjectsRun :
          /\ Recorded(s)
          /\ LastRunOf(s).outcome = "raised" <=> "error" \in DOMAIN EntryOf(s)
          /\ LastRunOf(s).outcome = "raised" => DOMAIN EntryOf(s) = {"error"}
    /\ Done =>
          /\ Len(runs) = Len(aws_services)
          /\ \A i \in DOMAIN MasterDataLines :
                \E s \in SubjectsRun :
                    /\ LastRunOf(s).outcome # "raised"
                    /\ TaggedWith(MasterDataLines[i], s)
          /\ \A s \in SubjectsRun :
                TaggedCount(s) = IF LastRunOf(s).outcome = "table"
                                 THEN RowLinesOf(LastRunOf(s).table) ELSE 0

\* the first subject's run threw, the second subject's run gave a table
\* with rows, and these are in the master CSV
C18_Witness ==
    /\ Done
    /\ Len(runs) = 2
    /\ aws_services[1] # aws_services[2]
    /\ runs[1].outcome = "raised"
    /\ "error" \in DOMAIN EntryOf(aws_services[1])
    /\ runs[2].outcome = "table"
    /\ TaggedCount(aws_services[2]) > 0
    /\ TaggedCount(aws_services[1]) = 0

\* the sum of the row counts of the entries whose table passed validation
RECURSIVE ValidatedRows(_)
ValidatedRows(controls) ==
    IF controls = <<>> THEN 0
    ELSE (IF /\ "csv_validation" \in DOMAIN Head(controls).data
             /\ Head(controls).data.csv_validation.is_valid
          THEN Head(controls).data.csv_validation.row_count ELSE 0)
             + ValidatedRows(Tail(controls))

\* C19 (as claimed): a subject whose table failed validation has no row in
\* the master CSV, and the number of master rows is the sum of the row
\* counts of the subjects whose table passed validation.
C19_OnlyValidatedTablesReachMaster ==
    Done =>
        /\ \A s \in SubjectsRun :
              ( /\ "csv_validation" \in DOMAIN EntryOf(s)
                /\ ~EntryOf(s).csv_validation.is_valid ) => TaggedCount(s) = 0
        /\ Len(MasterDataLines) = ValidatedRows(all_controls)

\* every record csv.reader reads from text
RECURSIVE ReadAll(_, _)
ReadAll(text, pos) ==
    LET r == reader_next(text, pos)
    IN  IF r.kind = "row" THEN <<r.fields>> \o ReadAll(text, r.pos)
        ELSE <<>>

\* the rows of table t, each with the subject s as one more field
TaggedRows(t, s) ==
    [k \in DOMAIN t.rows |-> Append(RowFields(t.cols, t.rows[k]), <<s>>)]

\* the tagged rows of the tables in the dict of the batch, in its order
RECURSIVE SourceRecords(_)
SourceRecords(controls) ==
    IF controls = <<>> THEN <<>>
    ELSE LET s == Head(controls).service
         IN  (IF LastRunOf(s).outcome = "table"
              THEN TaggedRows(LastRunOf(s).table, s) ELSE <<>>)
                 \o SourceRecords(Tail(controls))

MasterColumns == Append(RequiredColumns, "awsService")

\* C20 (as claimed): read as CSV, the master CSV is the header of the 7
\* columns and awsService, and then, for every row of the final tables
\* that went into it, one record of 8 fields: the 7 fields of the row,
\* unchanged and in order, and the subject.
C20_MasterRowsKeepStructure ==
    Done =>
        ReadAll(master_csv_content, 1)
            = <<[i \in DOMAIN MasterColumns |-> <<MasterColumns[i]>>]>>
                  \o SourceRecords(all_controls)

\* ------------------------------------------------------------------------
\* The language tag of a fenced block
\* ------------------------------------------------------------------------
\* C28 (as claimed): what extract_csv_from_text returns never begins with
\* the language tag of a fenced block, the line 'csv' that follows the
\* opening fence.
C28_NeverBeginsWithTag ==
    extracted \notin {Unused, <<>>} =>
        ~( /\ Len(extracted) >= 2
           /\ lower(extracted[1]) = "csv"
           /\ extracted[2] = LF )

\* ------------------------------------------------------------------------
\* Which contribution of a stage is kept, and what the final table is
\* derived from
\* ------------------------------------------------------------------------
\* the last turn in which stage p spoke and kept to its layout
LastHeadedTurnOf(p) == MaxOf(HeadedTurnsOf(p))

\* C27: of the contributions of a stage that hold its header the last one
\* is stored: a later one with the header replaces an earlier one, a later
\* one without the header leaves the earlier one in place.
C27_LastHeadedContributionWins ==
    Completed =>
        \A p \in Range(Participants) :
            HeadedTurnsOf(p) # {} =>
                StageOutput(p) = messages[LastHeadedTurnOf(p)].content

\* the Search stage kept to its layout twice, with different texts; the
\* Select stage kept to it in its first turn and broke it in its second
C27_Witness ==
    /\ Completed
    /\ Cardinality(HeadedTurnsOf("DocumentSearchAgent")) = 2
    /\ \E i \in HeadedTurnsOf("DocumentSearchAgent") :
          /\ i < LastHeadedTurnOf("DocumentSearchAgent")
          /\ messages[i].content # results.search_results
    /\ Cardinality(TurnsOf("URLSelectorAgent")) = 2
    /\ Cardinality(HeadedTurnsOf("URLSelectorAgent")) = 1
    /\ LastHeadedTurnOf("URLSelectorAgent") < MaxOf(TurnsOf("URLSelectorAgent"))
    /\ results.selected_url_analysis
           = messages[LastHeadedTurnOf("URLSelectorAgent")].content

\* a Process-stage contribution with the table t in its 'CSV Output' block
ProcessorContribution(t) ==
    WriteDocument(<<Title("SecurityControlsProcessor"),
                    Block("h2", <<"CSV", SP, "Output">>),
                    Block("fence_csv", WriteTable(t))>>)

\* a valid table of one row that no Validate stage of a run writes
ProcessorTable ==
    [cols |-> RequiredColumns,
     rows |-> <<Row(<<"P">>, <<"p">>, <<"Critical">>, NotSpecified, 0)>>,
     style |-> Style(TRUE, <<LF>>, FALSE, FALSE)]

\* another thing the Process stage could have contributed: a table of its
\* own, followed by a text laid out as a validation report with a final
\* table
ProcessAlternatives ==
    { ProcessorContribution(ProcessorTable)
          \o ValidationReport(ProcessorTable, TRUE) }

\* the transcript with every contribution of the Process stage replaced
WithProcess(msgs, c) ==
    [i \in DOMAIN msgs |->
        IF msgs[i].source = "SecurityControlsProcessor"
        THEN [source |-> msgs[i].source, content |-> c]
        ELSE msgs[i]]

\* C26: a transcript that differs from the run's in the contributions of
\* the Process stage only gives the same validation_report and final_csv;
\* the csv_validation of analyze_and_save_all is the validation of that
\* final_csv.
C26_FinalTableFromValidateOnly ==
    /\ Completed =>
          \A c \in ProcessAlternatives :
              LET other == analyze_aws_service_security(request,
                                                        WithProcess(messages, c))
              IN  /\ other.validation_report = results.validation_report
                  /\ other.final_csv = results.final_csv
                  /\ other.processed_controls # results.processed_controls
    /\ (SavedAll /\ "csv_validation" \in DOMAIN results) =>
          results.csv_validation = validate_csv_format(results.final_csv)

\* the final table of the Validate stage failed validation, the Process
\* stage had contributed in its layout; a valid table from the Process
\* stage would not have changed that
C26_Witness ==
    /\ SavedAll
    /\ results.processed_controls # <<>>
    /\ results.final_csv # <<>>
    /\ ~results.csv_validation.is_valid
    /\ validate_csv_format(WriteTable(ProcessorTable)).is_valid

\* ------------------------------------------------------------------------
\* What save_csv_results persists
\* ------------------------------------------------------------------------
\* the content of the file written under path
Persisted(path) ==
    LET content == (CHOOSE f \in files : f.path = path).content
    IN  IF "text" \in DOMAIN content THEN content.text ELSE content

\* the first line of a text
FirstLine(text) == split(text, LF)[1]

RequiredHeaderLine ==
    WriteRow([i \in DOMAIN RequiredColumns |-> <<RequiredColumns[i]>>],
             Style(FALSE, <<LF>>, FALSE, FALSE))

\* C24 (as claimed): the first line of the table analyze_and_save_all
\* persists through save_csv_results is the header of the 7 required
\* columns (a line end of CR LF is let pass), whatever the Validate stage
\* contributed.
C24_PersistedHeaderIsExact ==
    SavedAll =>
        Trimmed(FirstLine(Persisted(results.csv_file))) = RequiredHeaderLine

\* the fields of the header of the 7 required columns
RequiredHeaderFields == [i \in DOMAIN RequiredColumns |-> <<RequiredColumns[i]>>]

\* the text is the header and one placeholder row for the subject
IsPlaceholderTable(text, subject) ==
    LET records == ReadAll(text, 1)
    IN  /\ Len(records) = 2
        /\ records[1] = RequiredHeaderFields
        /\ records[2][1] = <<"AWS-", upper(subject), "-001">>
        /\ records[2][2] = <<"No security controls extracted">>
        /\ records[2][3] = <<"Medium">>

\* C30: analyze_and_save_all persists through save_csv_results the run's
\* final table as it is when there is one, and the header with one
\* placeholder row 'AWS-{SUBJECT}-001,No security controls extracted,
\* Medium,...' when there is none; the fields of the returned result are
\* then still those of the analysis, its final_csv empty, and no
\* validation report is attached.
C30_PlaceholderOnlyWhenEmpty ==
    SavedAll =>
        /\ results.final_csv # <<>> =>
              Persisted(results.csv_file) = results.final_csv
        /\ results.final_csv = <<>> =>
              /\ IsPlaceholderTable(Persisted(results.csv_file),
                                    request.aws_service)
              /\ "csv_validation" \notin DOMAIN results
              /\ [k \in ResultKeys |-> results[k]]
                     = analyze_aws_service_security(request, messages)

\* the run of Lambda gave no final table, the placeholder names the
\* subject in capitals and the URL of the Select stage
C30_Witness ==
    /\ SavedAll
    /\ request.aws_service = "Lambda"
    /\ results.final_csv = <<>>
    /\ results.extracted_url # <<>>
    /\ ReadAll(Persisted(results.csv_file), 1)[2][1] = <<"AWS-", "LAMBDA", "-001">>
    /\ ReadAll(Persisted(results.csv_file), 1)[2][7]
           = <<"Check", SP>> \o results.extracted_url

\* ------------------------------------------------------------------------
\* The record count the endpoint reports
\* ------------------------------------------------------------------------
\* C29 (as claimed): the csv_records_count of the response of
\* analyze_service is the row_count of the validation report of the same
\* final table.
C29_RecordCountIsRowCount ==
    \A i \in DOMAIN analyses :
        (/\ analyses[i].phase = "done"
         /\ "csv_validation" \in DOMAIN analyses[i].results) =>
            analyses[i].response.csv_records_count
                = analyses[i].results.csv_validation.row_count

\* ========================================================================
\* Part 5: the tool helpers of AWSDocumentationAnalyzer
\*
\* search_aws_documentation and read_aws_documentation hand one call to
\* the MCP client the analyzer was constructed with, which may be None.
\* tool_results is the sequence of what the calls gave their callers.
\* ========================================================================
MCPClient == <<"<MCPClient>">>

\* the constructor's argument mcp_client: Optional = None
ClientChoices == {None, MCPClient}

QueryChoices == {<<"S3", SP, "security">>, <<>>}

UrlChoices == {<<"https://docs.aws.amazon.com/s3">>, <<>>}

\* what mcp_client.call_tool does with a call: it returns the tool's
\* result, or it raises
ToolOutcomes ==
    { [kind |-> "return", text |-> <<"content">>],
      [kind |-> "raise", text |-> <<"Connection", SP, "refused">>] }

Returns(text) == [kind |-> "return", text |-> text]

\* the dict {"error": text}
ErrorPayload(text) == [kind |-> "error", text |-> text]

\* an exception that leaves the helper
Raises(text) == [kind |-> "raise", text |-> text]

\* search_aws_documentation(query), outcome being what call_tool does
search_aws_documentation(client, query, outcome) ==
    IF client = None
    THEN Raises(<<"MCP", SP, "client", SP, "not", SP, "configured">>)
    ELSE IF outcome.kind = "raise"
    THEN ErrorPayload(<<"Failed to search documentation: ">> \o outcome.text)
    ELSE Returns(outcome.text)

\* read_aws_documentation(url), outcome being what call_tool does
read_aws_documentation(client, url, outcome) ==
    IF client = None
    THEN Raises(<<"MCP", SP, "client", SP, "not", SP, "configured">>)
    ELSE IF outcome.kind = "raise"
    THEN ErrorPayload(<<"Failed to read documentation: ">> \o outcome.text)
    ELSE Returns(outcome.text)

ToolCall(tool, arg, outcome, result) ==
    [tool |-> tool, arg |-> arg, outcome |-> outcome, result |-> result]

InitTools ==
    /\ hashseed = 0
    /\ table = Unused
    /\ csv_content = Unused
    /\ heap = <<>>
    /\ calls = <<>>
    /\ document = Unused
    /\ doc_text = Unused
    /\ extracted = Unused
    /\ summary = Unused
    /\ request = Unused
    /\ messages = <<>>
    /\ results = NotReturned
    /\ files = {}
    /\ aws_services = <<>>
    /\ runs = <<>>
    /\ all_controls = <<>>
    /\ master_csv_content = Unused
    /\ response = NoResponse
    /\ reruns = <<>>
    /\ service_data = <<>>
    /\ mcp_client \in ClientChoices
    /\ tool_results = <<>>
    /\ analyses = <<>>

SearchAwsDocumentation ==
    /\ Len(tool_results) < MaxCalls
    /\ \E query \in QueryChoices, outcome \in ToolOutcomes :
          tool_results' =
              Append(tool_results,
                     ToolCall("search_documentation", query, outcome,
                              search_aws_documentation(mcp_client, query, outcome)))
    /\ UNCHANGED <<validatorVars, extractorVars, coordinatorVars, batchVars,
                   response, reruns, service_data, mcp_client, analyses>>

ReadAwsDocumentation ==
    /\ Len(tool_results) < MaxCalls
    /\ \E url \in UrlChoices, outcome \in ToolOutcomes :
          tool_results' =
              Append(tool_results,
                     ToolCall("read_documentation", url, outcome,
                              read_aws_documentation(mcp_client, url, outcome)))
    /\ UNCHANGED <<validatorVars, extractorVars, coordinatorVars, batchVars,
                   response, reruns, service_data, mcp_client, analyses>>

NextTools == SearchAwsDocumentation \/ ReadAwsDocumentation

SpecTools == InitTools /\ [][NextTools]_vars

\* C23 (as claimed): no call of search_aws_documentation or
\* read_aws_documentation throws: a call that fails, the client missing or
\* its call_tool raising, gives its caller an error payload.
C23_ToolHelpersNeverThrow ==
    \A i \in DOMAIN tool_results :
        /\ tool_results[i].result.kind # "raise"
        /\ (mcp_client = None \/ tool_results[i].outcome.kind = "raise")
               => tool_results[i].result.kind = "error"

\* ========================================================================
\* Part 6: the endpoint analyze_multiple_services (aws_documentation_api.py)
\*
\* The endpoint calls generate_compliance_report on the names of the
\* request, which runs every subject and writes the master CSV, and then
\* extract_security_controls_for_services on the same names, which runs
\* every subject again; the response is built from the dict of the
\* second call.  runs and all_controls are those of the first call, reruns
\* and service_data those of the second.
\* ========================================================================
\* what a run of a subject may come to under the endpoint
EndpointRuns ==
    { [outcome |-> "table",
       table |-> [cols |-> RequiredColumns,
                  rows |-> <<Row(<<"A">>, <<"n">>, <<"High">>, NotSpecified, 0)>>,
                  style |-> UnixStyle]],
      [outcome |-> "failed", table |-> NoTable] }

\* all_controls.get(service_name, {})
Get(d, service) ==
    IF \E i \in DOMAIN d : d[i].service = service
    THEN d[CHOOSE i \in DOMAIN d : d[i].service = service].data
    ELSE <<>>

\* "PASSED" if csv_validation.get("is_valid", False) else "FAILED"
validation_status(data) ==
    IF /\ "error" \notin DOMAIN data
       /\ "csv_validation" \in DOMAIN data
       /\ data.csv_validation.is_valid
    THEN "PASSED" ELSE "FAILED"

\* csv_validation.get("row_count", 0)
record_count(data) ==
    IF "error" \notin DOMAIN data /\ "csv_validation" \in DOMAIN data
    THEN data.csv_validation.row_count ELSE 0

\* the AnalysisResponse of a subject of the batch
service_result(service_name, data) ==
    IF "error" \in DOMAIN data
    THEN [status |-> "error", service_name |-> service_name,
          csv_records_count |-> 0, validation_status |-> "FAILED"]
    ELSE [status |-> IF validation_status(data) = "PASSED"
                     THEN "success" ELSE "warning",
          service_name |-> service_name,
          csv_records_count |-> record_count(data),
          validation_status |-> validation_status(data)]

\* total_csv_records after the loop over the names from the k-th on
RECURSIVE total_csv_records(_, _, _)
total_csv_records(names, d, k) ==
    IF k > Len(names) THEN 0
    ELSE (IF validation_status(Get(d, names[k])) = "PASSED"
          THEN record_count(Get(d, names[k])) ELSE 0)
             + total_csv_records(names, d, k + 1)

\* the MultiServiceResponse built from the dict d
MultiServiceResponse(names, d) ==
    LET successful_analyses ==
            Cardinality({k \in DOMAIN names :
                            validation_status(Get(d, names[k])) = "PASSED"})
    IN  [status |-> "success",
         total_services |-> Len(names),
         successful_analyses |-> successful_analyses,
         failed_analyses |-> Len(names) - successful_analyses,
         master_csv_records |-> total_csv_records(names, d, 1),
         service_results |->
             [k \in DOMAIN names |-> service_result(names[k], Get(d, names[k]))]]

\* aws_services is the request's service_names
InitMultiple ==
    /\ hashseed = 0
    /\ table = Unused
    /\ csv_content = Unused
    /\ heap = <<>>
    /\ calls = <<>>
    /\ document = Unused
    /\ doc_text = Unused
    /\ extracted = Unused
    /\ summary = Unused
    /\ request = Unused
    /\ messages = <<>>
    /\ results = NotReturned
    /\ files = {}
    /\ aws_services \in ServiceLists
    /\ runs = <<>>
    /\ all_controls = <<>>
    /\ master_csv_content = Unused
    /\ response = NoResponse
    /\ reruns = <<>>
    /\ service_data = <<>>
    /\ mcp_client = None
    /\ tool_results = <<>>
    /\ analyses = <<>>

\* one pass of the loop of the first call in which the run returns
ReportService ==
    /\ Extracting
    /\ \E run \in EndpointRuns :
          /\ runs' = Append(runs, run)
          /\ all_controls' =
                 Put(all_controls, aws_services[Len(runs) + 1],
                     service_results(analysis_of(aws_services[Len(runs) + 1], run)))
    /\ UNCHANGED <<validatorVars, extractorVars, coordinatorVars,
                   aws_services, master_csv_content, apiVars>>

\* the second call is under way
Rerunning ==
    /\ master_csv_content # Unused
    /\ response = NoResponse
    /\ Len(reruns) < Len(aws_services)

\* one pass of the loop of the second call in which the run returns
RerunService ==
    /\ Rerunning
    /\ \E run \in EndpointRuns :
          /\ reruns' = Append(reruns, run)
          /\ service_data' =
                 Put(service_data, aws_services[Len(reruns) + 1],
                     service_results(analysis_of(aws_services[Len(reruns) + 1], run)))
    /\ UNCHANGED <<validatorVars, extractorVars, coordinatorVars, batchVars,
                   response, mcp_client, tool_results, analyses>>

\* one pass of the loop of the second call in which the run raises
RerunServiceFails ==
    /\ Rerunning
    /\ reruns' = Append(reruns, RaisingRun)
    /\ service_data' = Put(service_data, aws_services[Len(reruns) + 1],
                           [error |-> ErrorText])
    /\ UNCHANGED <<validatorVars, extractorVars, coordinatorVars, batchVars,
                   response, mcp_client, tool_results, analyses>>

\* the response, once the dict of the second call is there
AnalyzeMultipleServices ==
    /\ master_csv_content # Unused
    /\ response = NoResponse
    /\ Len(reruns) = Len(aws_services)
    /\ response' = MultiServiceResponse(aws_services, service_data)
    /\ UNCHANGED <<validatorVars, extractorVars, coordinatorVars, batchVars,
                   reruns, service_data, mcp_client, tool_results, analyses>>

NextMultiple ==
    \/ ReportService
    \/ ExtractServiceFails
    \/ GenerateComplianceReport
    \/ RerunService
    \/ RerunServiceFails
    \/ AnalyzeMultipleServices

SpecMultiple == InitMultiple /\ [][NextMultiple]_vars

\* the endpoint has answered the batch
Responded == response.status = "success" /\ "total_services" \in DOMAIN response

\* the subject's table passed validation in the run that fed the master CSV
PassedInMaster(s) ==
    /\ Recorded(s)
    /\ "error" \notin DOMAIN EntryOf(s)
    /\ "csv_validation" \in DOMAIN EntryOf(s)
    /\ EntryOf(s).csv_validation.is_valid

\* C21 (as claimed): in the response of a batch total_services is the
\* number of names requested, successful_analyses the number of them whose
\* table passed validation, failed_analyses the rest, and
\* master_csv_records the number of data rows of the master CSV the
\* request wrote.
C21_SummaryMatchesMaster ==
    Responded =>
        /\ response.total_services = Len(aws_services)
        /\ response.successful_analyses =
               Cardinality({k \in DOMAIN aws_services :
                               PassedInMaster(aws_services[k])})
        /\ response.failed_analyses =
               response.total_services - response.successful_analyses
        /\ response.master_csv_records = Len(MasterDataLines)

\* C22 (as claimed): a batch runs every subject once, in the order of the
\* list and one run after the other, and the statuses of the response
\* come from the runs that fed the master CSV.
C22_OneRunPerSubject ==
    /\ Len(runs) + Len(reruns) <= Len(aws_services)
    /\ Responded =>
          \A k \in DOMAIN aws_services :
              response.service_results[k].validation_status
                  = validation_status(EntryOf(aws_services[k]))

\* ========================================================================
\* Part 7: requests to analyze_service that overlap
\*
\* The endpoint awaits analyzer.analyze_and_save_all on the one analyzer of
\* the process, so a second request can start and finish while the first
\* is in its conversation.  analyses holds the requests in the order they
\* came in, each with the dict its run returned and the response it got;
\* results is the dict returned last, files the one file system the runs
\* write to.
\* ========================================================================
MaxRequests == 2

ConcurrentRequests ==
    RequestChoices
        \cup { [aws_service |-> "S3",
                search_query |-> <<"S3 bucket policies">>],
               [aws_service |-> "Lambda", search_query |-> None] }

InitRequests ==
    /\ hashseed = 0
    /\ table = Unused
    /\ csv_content = Unused
    /\ heap = <<>>
    /\ calls = <<>>
    /\ document = Unused
    /\ doc_text = Unused
    /\ extracted = Unused
    /\ summary = Unused
    /\ request = Unused
    /\ messages = <<>>
    /\ results = NotReturned
    /\ files = {}
    /\ aws_services = <<>>
    /\ runs = <<>>
    /\ all_controls = <<>>
    /\ master_csv_content = Unused
    /\ response = NoResponse
    /\ reruns = <<>>
    /\ service_data = <<>>
    /\ mcp_client = None
    /\ tool_results = <<>>
    /\ analyses = <<>>

\* what the run of a request may come to
RequestRuns ==
    EndpointRuns \cup {[outcome |-> "table", table |-> CrlfTable]}

\* a request comes in and its conversation starts
StartAnalysis ==
    /\ Len(analyses) < MaxRequests
    /\ \E req \in ConcurrentRequests :
          analyses' = Append(analyses, [request |-> req, phase |-> "running",
                                        results |-> NotReturned,
                                        response |-> NoResponse])
    /\ UNCHANGED <<validatorVars, extractorVars, coordinatorVars, batchVars,
                   response, reruns, service_data, mcp_client, tool_results>>

\* the conversation of a request ends: analyze_and_save_all extracts the
\* fields, writes the two files and returns, and the endpoint builds its
\* response from the returned dict
FinishAnalysis ==
    \E i \in DOMAIN analyses, run \in RequestRuns :
        /\ analyses[i].phase = "running"
        /\ results' = analyze_and_save_all(
                          analyses[i].request,
                          Converse(<<task_message(analyses[i].request)>>,
                                   ReportOf(run)))
        /\ files' = WriteFile(WriteFile(files, results'.markdown_file,
                                        markdown_report(results')),
                              results'.csv_file, TextFile(saved_csv(results')))
        /\ analyses' = [analyses EXCEPT ![i].phase = "done",
                                        ![i].results = results',
                                        ![i].response = AnalysisResponse(results')]
        /\ UNCHANGED <<validatorVars, extractorVars, request, messages,
                       batchVars, response, reruns, service_data, mcp_client,
                       tool_results>>

\* the conversation of a request raises: the request is answered with
\* status 500 and nothing is written
FinishAnalysisFails ==
    \E i \in DOMAIN analyses :
        /\ analyses[i].phase = "running"
        /\ results' = Raised
        /\ analyses' = [analyses EXCEPT ![i].phase = "failed",
                                        ![i].results = Raised,
                                        ![i].response = HTTPException(500)]
        /\ UNCHANGED <<validatorVars, extractorVars, request, messages, files,
                       batchVars, response, reruns, service_data, mcp_client,
                       tool_results>>

NextRequests == StartAnalysis \/ FinishAnalysis \/ FinishAnalysisFails

SpecRequests == InitRequests /\ [][NextRequests]_vars

\* C25 (as claimed): no run is affected by another one: whatever other
\* requests came in before, during or after it, the files a finished run
\* names in its result hold what that run wrote.
C25_RunsAreIndependent ==
    \A i \in DOMAIN analyses :
        analyses[i].phase = "done" =>
            /\ Persisted(analyses[i].results.csv_file)
                   = saved_csv(analyses[i].results)
            /\ Persisted(analyses[i].results.markdown_file)
                   = markdown_report(analyses[i].results)

====
